---------------------------- MODULE Spec2Model ----------------------------
(***************************************************************************)
(* A model of the advent_of_code_2022 solvers: the aoclib DenseGrid and    *)
(* Point::line_to, and the day programs aoc4, aoc5, aoc9, aoc14, aoc16,    *)
(* aoc17, aoc19 and aoc21.                                                 *)
(* Each program is a state machine of its own (SpecGrid, SpecLine, ...);   *)
(* the variables of the other programs stay at their idle value.           *)
(***************************************************************************)
EXTENDS Integers, Sequences, FiniteSets, TLC

VARIABLES
    g,        \* aoclib::grid::DenseGrid: min_x, max_x, min_y, max_y, width, height, cells
    gin,      \* the arguments of DenseGrid::new_with: upper_left, lower_right, empty_value
    gop,      \* the last grid operation: its name, coordinate, value and return value
    shadow,   \* coordinate -> the value most recently stored there (history variable)
    nops,     \* the number of grid operations performed so far
    lt,       \* aoclib::point::LineToIter and the points it has yielded
    asg,      \* aoc4: two Assignments and the result of overlaps
    par,      \* aoc19: the blueprints, the parallel map's tasks and the reduction
    rope,     \* aoc9: the command lines, the knots, the running flag and the output
    cr,       \* aoc5: the input lines, the Scene being parsed and run, the output
    va,       \* aoc16: the Scene, the call stack of find_best_rec and the memo table
    sim,      \* aoc19: one call of simulate_with and a build schedule played beside it
    ev,       \* aoc21: the monkeys, the path to humn and the value being solved for
    tw,       \* aoc17: the Scene of falling shapes, the jets and the shape counter
    sd        \* aoc14: the Scene of rock and sand, the falling unit and sand_created

gridVars == <<g, gin, gop, shadow, nops>>
lineVars == <<lt>>
asgVars == <<asg>>
parVars == <<par>>
ropeVars == <<rope>>
crVars == <<cr>>
vaVars == <<va>>
simVars == <<sim>>
evVars == <<ev>>
twVars == <<tw>>
sdVars == <<sd>>
vars == <<gridVars, lineVars, asgVars, parVars, ropeVars, crVars, vaVars,
          simVars, evVars, twVars, sdVars>>

\* The value of a variable whose program is not the one running.
Idle == [pc |-> "idle"]
GridIdle == g = Idle /\ gin = Idle /\ gop = Idle /\ shadow = Idle /\ nops = 0
LineIdle == lt = Idle
AsgIdle == asg = Idle
ParIdle == par = Idle
RopeIdle == rope = Idle
CrIdle == cr = Idle
VaIdle == va = Idle
SimIdle == sim = Idle
EvIdle == ev = Idle
TwIdle == tw = Idle
SdIdle == sd = Idle

(***************************************************************************)
(* Option<T>: None is the empty tuple, Some(x) the one-element tuple.      *)
(***************************************************************************)
None == <<>>
Some(x) == <<x>>

Min(a, b) == IF a <= b THEN a ELSE b
Max(a, b) == IF a >= b THEN a ELSE b
Abs(a) == IF a < 0 THEN -a ELSE a
abs_diff(a, b) == IF a >= b THEN a - b ELSE b - a
Point(px, py) == [x |-> px, y |-> py]

(***************************************************************************)
(*                      aoclib::grid::DenseGrid                            *)
(***************************************************************************)
\* The number of grid operations in one run.
MaxOps == 2

\* Corner coordinates (grids of up to 3 x 2 cells), and the coordinates that
\* are read and written: one further out on every side.
GridXs == -1 .. 1
GridYs == -1 .. 0
Corners == {Point(px, py) : px \in GridXs, py \in GridYs}
Probes == {Point(px, py) : px \in -2 .. 2, py \in -2 .. 1}
Values == {0, 1}

new_with_short(upper_left, lower_right, empty_value) ==
    LET min_x == Min(upper_left.x, lower_right.x)
        max_x == Max(upper_left.x, lower_right.x)
        min_y == Min(upper_left.y, lower_right.y)
        max_y == Max(upper_left.y, lower_right.y)
        w == abs_diff(max_x, min_x)
        h == 1 + abs_diff(max_y, min_y)
    IN  [min_x |-> min_x, max_x |-> max_x, min_y |-> min_y, max_y |-> max_y,
         width |-> w, height |-> h,
         cells |-> [i \in 1 .. w * h |-> empty_value]]

\* DenseGrid::new_with. cells is the Vec: cells[i + 1] is the Vec's element i.
new_with(upper_left, lower_right, empty_value) ==
    LET min_x == Min(upper_left.x, lower_right.x)
        max_x == Max(upper_left.x, lower_right.x)
        min_y == Min(upper_left.y, lower_right.y)
        max_y == Max(upper_left.y, lower_right.y)
        w == 1 + abs_diff(max_x, min_x)
        h == 1 + abs_diff(max_y, min_y)
    IN  [min_x |-> min_x, max_x |-> max_x, min_y |-> min_y, max_y |-> max_y,
         width |-> w, height |-> h,
         cells |-> [i \in 1 .. w * h |-> empty_value]]

width(gr) == gr.width
height(gr) == gr.height
size(gr) == gr.width * gr.height

contains(gr, c) ==
    /\ c.x >= gr.min_x
    /\ c.x <= gr.max_x
    /\ c.y >= gr.min_y
    /\ c.y <= gr.max_y

\* index_for without the upper bound on x: a coordinate right of the box runs
\* on into the next row.
index_for_wrap(gr, c) ==
    IF c.x < gr.min_x \/ c.y < gr.min_y \/ c.y > gr.max_y
    THEN None
    ELSE Some(abs_diff(c.y, gr.min_y) * gr.width + abs_diff(c.x, gr.min_x))

\* index_for with the row stride taken from the height.
index_for_stride(gr, c) ==
    IF c.x < gr.min_x \/ c.x > gr.max_x \/ c.y < gr.min_y \/ c.y > gr.max_y
    THEN None
    ELSE Some(abs_diff(c.y, gr.min_y) * gr.height + abs_diff(c.x, gr.min_x))

\* DenseGrid::index_for
index_for(gr, c) ==
    IF c.x < gr.min_x \/ c.x > gr.max_x \/ c.y < gr.min_y \/ c.y > gr.max_y
    THEN None
    ELSE LET row == abs_diff(c.y, gr.min_y) * gr.width
             col == abs_diff(c.x, gr.min_x)
         IN  Some(row + col)

\* Vec::get: None past the end.
vec_get(cells, i) == IF i < Len(cells) THEN Some(cells[i + 1]) ELSE None

\* DenseGrid::get
get(gr, c) ==
    LET index == index_for(gr, c)
    IN  IF index = None THEN None ELSE vec_get(gr.cells, index[1])

\* The unit value () that set returns in Some(()).
Unit == <<>>

GridInit ==
    /\ gin \in [upper_left : Corners, lower_right : Corners, empty_value : Values]
    /\ g = new_with(gin.upper_left, gin.lower_right, gin.empty_value)
    /\ gop = [op |-> "new", c |-> gin.upper_left, v |-> gin.empty_value,
              ret |-> None, panicked |-> FALSE]
    /\ shadow = [c \in {p \in Probes : contains(g, p)} |-> gin.empty_value]
    /\ nops = 0

\* The process is alive (no panic so far) and the run has operations left.
GridLive == nops < MaxOps /\ ~gop.panicked

\* g.set(c, v): None out of the box, Some(()) after the store; cells[index]
\* panics when the index is past the end of the Vec.
GridSet(c, v) ==
    /\ GridLive
    /\ LET index == index_for(g, c)
       IN  IF index = None
           THEN /\ gop' = [op |-> "set", c |-> c, v |-> v, ret |-> None, panicked |-> FALSE]
                /\ UNCHANGED <<g, shadow>>
           ELSE IF index[1] >= Len(g.cells)
           THEN /\ gop' = [op |-> "set", c |-> c, v |-> v, ret |-> None, panicked |-> TRUE]
                /\ UNCHANGED <<g, shadow>>
           ELSE /\ g' = [g EXCEPT !.cells[index[1] + 1] = v]
                /\ gop' = [op |-> "set", c |-> c, v |-> v, ret |-> Some(Unit),
                           panicked |-> FALSE]
                /\ shadow' = [p \in DOMAIN shadow |-> IF p = c THEN v ELSE shadow[p]]
    /\ nops' = nops + 1
    /\ UNCHANGED gin

\* g[c] = v: index_mut unwraps index_for and get_mut, so it panics out of the box.
GridIndexMut(c, v) ==
    /\ GridLive
    /\ LET index == index_for(g, c)
       IN  IF index = None \/ (index # None /\ index[1] >= Len(g.cells))
           THEN /\ gop' = [op |-> "index_mut", c |-> c, v |-> v, ret |-> None,
                           panicked |-> TRUE]
                /\ UNCHANGED <<g, shadow>>
           ELSE /\ g' = [g EXCEPT !.cells[index[1] + 1] = v]
                /\ gop' = [op |-> "index_mut", c |-> c, v |-> v, ret |-> Some(Unit),
                           panicked |-> FALSE]
                /\ shadow' = [p \in DOMAIN shadow |-> IF p = c THEN v ELSE shadow[p]]
    /\ nops' = nops + 1
    /\ UNCHANGED gin

\* g.get(c)
GridGet(c) ==
    /\ GridLive
    /\ gop' = [op |-> "get", c |-> c, v |-> 0, ret |-> get(g, c), panicked |-> FALSE]
    /\ nops' = nops + 1
    /\ UNCHANGED <<g, gin, shadow>>

\* g[c]: index unwraps index_for and Vec::get.
GridIndex(c) ==
    /\ GridLive
    /\ LET r == get(g, c)
       IN  gop' = [op |-> "index", c |-> c, v |-> 0, ret |-> r, panicked |-> r = None]
    /\ nops' = nops + 1
    /\ UNCHANGED <<g, gin, shadow>>

InitGrid == GridInit /\ LineIdle /\ AsgIdle /\ ParIdle /\ RopeIdle /\ CrIdle /\ VaIdle /\ SimIdle /\ EvIdle /\ TwIdle /\ SdIdle
GridFrame == UNCHANGED <<lineVars, asgVars, parVars, ropeVars, crVars, vaVars, simVars, evVars, twVars, sdVars>>
NextGrid ==
    \/ \E c \in Probes, v \in Values : GridSet(c, v) /\ GridFrame
    \/ \E c \in Probes, v \in Values : GridIndexMut(c, v) /\ GridFrame
    \/ \E c \in Probes : GridGet(c) /\ GridFrame
    \/ \E c \in Probes : GridIndex(c) /\ GridFrame

SpecGrid == InitGrid /\ [][NextGrid]_vars

\* The cell of coordinate c, read row by row from the Vec (for c in the box).
CellAt(gr, c) ==
    gr.cells[(c.y - gr.min_y) * (gr.max_x - gr.min_x + 1) + (c.x - gr.min_x) + 1]

InBox(gr) == {c \in Probes : contains(gr, c)}

\* C1: an access outside the bounding box is rejected: get and set return
\* None there and set changes no cell, no out-of-box coordinate is mapped
\* onto a cell, and get is Some exactly where contains is true.
C1_OutOfBoxRejected ==
    /\ \A c \in Probes : (get(g, c) # None) <=> contains(g, c)
    /\ \A c \in Probes : ~contains(g, c) => index_for(g, c) = None
    /\ (gop.op \in {"get", "set"} /\ ~contains(g, gop.c)) =>
          /\ gop.ret = None
          /\ ~gop.panicked
          /\ \A c \in InBox(g) : CellAt(g, c) = shadow[c]

\* A set just right of the box, on a row that has a next row to run into, of
\* a value the cells do not all hold.
C1_Witness ==
    /\ gop.op = "set"
    /\ gop.c.x = g.max_x + 1
    /\ gop.c.y >= g.min_y /\ gop.c.y < g.max_y
    /\ gop.v # gin.empty_value
    /\ gop.ret = None

\* C2: get(p) and grid[p] return the value most recently stored at p (the
\* empty value if none was), and a store at p changes no other cell.
C2_LastStoreWins ==
    /\ \A c \in InBox(g) : get(g, c) = Some(shadow[c])
    /\ (gop.op \in {"get", "index"} /\ contains(g, gop.c)) =>
          gop.ret = Some(shadow[gop.c]) /\ ~gop.panicked
    /\ (gop.op \in {"set", "index_mut"} /\ contains(g, gop.c)) =>
          gop.ret = Some(Unit) /\ get(g, gop.c) = Some(gop.v)

\* Two stores, the second one to a coordinate of a grid that is not square,
\* after which some cell holds the empty value and some cell does not.
C2_Witness ==
    /\ nops = 2
    /\ gop.op \in {"set", "index_mut"}
    /\ gop.ret = Some(Unit)
    /\ g.width # g.height
    /\ \E c, d \in InBox(g) :
          /\ get(g, c) = Some(gin.empty_value)
          /\ get(g, d) # Some(gin.empty_value)
          /\ d.y > g.min_y

\* C3: new_with on two corners in either order: width = |x1-x2|+1, height =
\* |y1-y2|+1, size() = width*height cells, all empty at construction, and
\* index_for maps the coordinates of the box one-to-one onto 0..size()-1.
C3_NewWithShape ==
    /\ width(g) = Abs(gin.upper_left.x - gin.lower_right.x) + 1
    /\ height(g) = Abs(gin.upper_left.y - gin.lower_right.y) + 1
    /\ size(g) = width(g) * height(g)
    /\ Len(g.cells) = size(g)
    /\ nops = 0 => \A i \in 1 .. Len(g.cells) : g.cells[i] = gin.empty_value
    /\ \A c \in InBox(g) : index_for(g, c) # None
    /\ {index_for(g, c)[1] : c \in InBox(g)} = 0 .. (size(g) - 1)
    /\ \A c, d \in InBox(g) : index_for(g, c) = index_for(g, d) => c = d
    /\ Cardinality(InBox(g)) = size(g)

\* A grid built from its lower right and upper left corners, in that order.
C3_Witness ==
    /\ nops = 0
    /\ gin.upper_left.x > gin.lower_right.x
    /\ gin.upper_left.y > gin.lower_right.y
    /\ size(g) = 6

(***************************************************************************)
(*                  aoclib::point::Point::line_to                          *)
(***************************************************************************)
\* Line end points have coordinates in -LineMax..LineMax.
LineMax == 2

LinePoints == {Point(px, py) : px \in -LineMax .. LineMax, py \in -LineMax .. LineMax}

\* Point::manhattan_distance_to
manhattan_distance_to(a, b) == Abs(a.x - b.x) + Abs(a.y - b.y)

\* Point + Point
PointAdd(a, b) == Point(a.x + b.x, a.y + b.y)

\* The match of LineToIter::new on (start.x.cmp(&end.x), start.y.cmp(&end.y));
\* None stands for the unreachable!() arm.
line_direction(start, end) ==
    IF start.x < end.x THEN Some(Point(1, 0))
    ELSE IF start.x > end.x THEN Some(Point(-1, 0))
    ELSE IF start.y < end.y THEN Some(Point(0, 1))
    ELSE IF start.y > end.y THEN Some(Point(0, -1))
    ELSE None

\* The arguments of line_to satisfy the debug_assert of LineToIter::new.
LineInit ==
    \E s \in LinePoints, e \in LinePoints :
        /\ s.x = e.x \/ s.y = e.y
        /\ lt = [pc |-> "call", from |-> s, to |-> e, start |-> s, end |-> e,
                 direction |-> Point(0, 0), done |-> FALSE, out |-> <<>>]

\* start.line_to(end): LineToIter::new
LineTo ==
    /\ lt.pc = "call"
    /\ LET dir == line_direction(lt.start, lt.end)
       IN  IF dir = None
           THEN lt' = [lt EXCEPT !.pc = "panic"]
           ELSE lt' = [lt EXCEPT !.pc = "iter", !.direction = dir[1]]

\* LineToIter::next, as collect() calls it until it returns None.
LineNext ==
    /\ lt.pc = "iter"
    /\ IF lt.done
       THEN lt' = [lt EXCEPT !.pc = "collected"]
       ELSE lt' = [lt EXCEPT !.done = (lt.start = lt.end),
                             !.start = PointAdd(lt.start, lt.direction),
                             !.out = Append(lt.out, lt.start)]

InitLine == LineInit /\ GridIdle /\ AsgIdle /\ ParIdle /\ RopeIdle /\ CrIdle /\ VaIdle /\ SimIdle /\ EvIdle /\ TwIdle /\ SdIdle
LineFrame == UNCHANGED <<gridVars, asgVars, parVars, ropeVars, crVars, vaVars, simVars, evVars, twVars, sdVars>>
NextLine ==
    \/ LineTo /\ LineFrame
    \/ LineNext /\ LineFrame

SpecLine == InitLine /\ [][NextLine]_vars

\* The points yielded are the manhattan distance + 1 points from `from` to
\* `to`, one unit step apart.
LineYield ==
    LET n == manhattan_distance_to(lt.from, lt.to)
    IN  /\ Len(lt.out) = n + 1
        /\ lt.out[1] = lt.from
        /\ lt.out[n + 1] = lt.to
        /\ \A i \in 1 .. n :
              /\ manhattan_distance_to(lt.out[i], lt.out[i + 1]) = 1
              /\ manhattan_distance_to(lt.out[i + 1], lt.to) = n - i

\* C4: for start and end sharing a coordinate, line_to terminates and yields
\* manhattan_distance + 1 points, from start to end in unit steps.
C4_LineToYields ==
    /\ lt.pc # "panic"
    /\ lt.pc \in {"iter", "collected"} =>
          Len(lt.out) <= manhattan_distance_to(lt.from, lt.to) + 1
    /\ lt.pc = "collected" => LineYield

\* What the code does keep: between two different points the line is right.
LineDistinctOk ==
    lt.from # lt.to =>
        /\ lt.pc # "panic"
        /\ lt.pc \in {"iter", "collected"} =>
              Len(lt.out) <= manhattan_distance_to(lt.from, lt.to) + 1
        /\ lt.pc = "collected" => LineYield

(***************************************************************************)
(*                       aoc4: Assignment::overlaps                        *)
(***************************************************************************)
\* Section numbers are 0..SecMax.
SecMax == 3

Assignments == [start : 0 .. SecMax, end : 0 .. SecMax]

\* RangeInclusive::contains
range_contains(r, x) == r.start <= x /\ x <= r.end

\* Assignment::fully_contains
fully_contains(self, other) ==
    range_contains(self, other.start) /\ range_contains(self, other.end)

\* overlaps without its second test: only the end points of other are looked at.
overlaps_endpoints(self, other) ==
    range_contains(self, other.start) \/ range_contains(self, other.end)

\* Assignment::overlaps
overlaps(self, other) ==
    IF range_contains(self, other.start) \/ range_contains(self, other.end)
    THEN TRUE
    ELSE IF other.start <= self.start /\ other.end >= self.start
    THEN TRUE
    ELSE FALSE

AsgInit ==
    \E a \in Assignments, b \in Assignments :
        asg = [pc |-> "call", a |-> a, b |-> b, ret |-> FALSE]

\* first.overlaps(second), the filter of Part2
Overlaps ==
    /\ asg.pc = "call"
    /\ asg' = [asg EXCEPT !.pc = "ret", !.ret = overlaps(asg.a, asg.b)]

\* first.fully_contains(second) || second.fully_contains(first), the filter of Part1
FullyContains ==
    /\ asg.pc = "call"
    /\ asg' = [asg EXCEPT !.pc = "ret1",
                          !.ret = fully_contains(asg.a, asg.b) \/ fully_contains(asg.b, asg.a)]

InitAsg == AsgInit /\ GridIdle /\ LineIdle /\ ParIdle /\ RopeIdle /\ CrIdle /\ VaIdle /\ SimIdle /\ EvIdle /\ TwIdle /\ SdIdle
AsgFrame == UNCHANGED <<gridVars, lineVars, parVars, ropeVars, crVars, vaVars, simVars, evVars, twVars, sdVars>>
NextAsg ==
    \/ Overlaps /\ AsgFrame
    \/ FullyContains /\ AsgFrame

SpecAsg == InitAsg /\ [][NextAsg]_vars

\* C5: for assignments with start <= end, overlaps is true exactly when the
\* two inclusive ranges share an integer, and it is symmetric.
C5_OverlapsIffShared ==
    (asg.pc = "ret" /\ asg.a.start <= asg.a.end /\ asg.b.start <= asg.b.end) =>
        /\ asg.ret <=> \E n \in 0 .. SecMax :
                          /\ asg.a.start <= n /\ n <= asg.a.end
                          /\ asg.b.start <= n /\ n <= asg.b.end
        /\ asg.ret <=> overlaps(asg.b, asg.a)

\* The second assignment strictly contains the first: neither of its end
\* points lies in the first.
C5_Witness ==
    /\ asg.pc = "ret"
    /\ asg.b.start < asg.a.start
    /\ asg.a.start <= asg.a.end
    /\ asg.a.end < asg.b.end
    /\ asg.ret

(***************************************************************************)
(*                 aoc19: simulate_with and the parallel map               *)
(***************************************************************************)
\* Blueprint: id, ore_cost, clay_cost, obsidian_cost (ore, clay), geode_cost
\* (ore, obsidian).
Blueprint(id, ore_cost, clay_cost, obs_ore, obs_clay, geode_ore, geode_obs) ==
    [id |-> id, ore_cost |-> ore_cost, clay_cost |-> clay_cost,
     obsidian_cost |-> <<obs_ore, obs_clay>>, geode_cost |-> <<geode_ore, geode_obs>>]

\* Blueprint::max_ore_use, max_clay_use, max_obsidian_use
max_ore_use(bp) ==
    Max(bp.ore_cost, Max(bp.clay_cost, Max(bp.obsidian_cost[1], bp.geode_cost[1])))
max_clay_use(bp) == bp.obsidian_cost[2]
max_obsidian_use(bp) == bp.geode_cost[2]

\* Inventory::new
InventoryNew ==
    [obsidian |-> 0, clay |-> 0, obsidian_robots |-> 0, clay_robots |-> 0,
     ore |-> 0, ore_robots |-> 1]

\* Inventory::next
InventoryNext(inv) ==
    [inv EXCEPT !.ore = inv.ore + inv.ore_robots,
                !.clay = inv.clay + inv.clay_robots,
                !.obsidian = inv.obsidian + inv.obsidian_robots]

\* An entry of work and next_work: (geodes, inventory, remaining_ticks).
WorkItem(geodes, inventory, remaining) ==
    [geodes |-> geodes, inventory |-> inventory, remaining |-> remaining]

\* The derived Ord of Inventory: its fields in declaration order.
InventoryKey(inv) ==
    <<inv.obsidian, inv.clay, inv.obsidian_robots, inv.clay_robots, inv.ore, inv.ore_robots>>

RECURSIVE LexGreater(_, _)
LexGreater(a, b) ==
    IF a = <<>> THEN FALSE
    ELSE IF Head(a) # Head(b) THEN Head(a) > Head(b)
    ELSE LexGreater(Tail(a), Tail(b))

\* a sorts before b under next_work.sort_by(|a, b| b.cmp(a)).
SortsBefore(a, b) ==
    LexGreater(<<a.geodes>> \o InventoryKey(a.inventory) \o <<a.remaining>>,
               <<b.geodes>> \o InventoryKey(b.inventory) \o <<b.remaining>>)

\* What one popped entry pushes onto next_work.
Pushes(blueprint, it) ==
    LET inventory == it.inventory
        geodes == it.geodes
        remaining_ticks == it.remaining
        next == InventoryNext(inventory)
    IN  IF inventory.ore >= blueprint.geode_cost[1]
           /\ inventory.obsidian >= blueprint.geode_cost[2]
        THEN {WorkItem(geodes + (remaining_ticks - 1),
                       [next EXCEPT !.ore = next.ore - blueprint.geode_cost[1],
                                    !.obsidian = next.obsidian - blueprint.geode_cost[2]],
                       remaining_ticks - 1)}
        ELSE (IF inventory.ore >= blueprint.obsidian_cost[1]
                 /\ inventory.clay >= blueprint.obsidian_cost[2]
                 /\ inventory.obsidian_robots < max_obsidian_use(blueprint)
              THEN {WorkItem(geodes,
                             [next EXCEPT !.ore = next.ore - blueprint.obsidian_cost[1],
                                          !.clay = next.clay - blueprint.obsidian_cost[2],
                                          !.obsidian_robots = next.obsidian_robots + 1],
                             remaining_ticks - 1)}
              ELSE {})
             \cup
             (IF inventory.ore >= blueprint.ore_cost
                 /\ inventory.ore_robots < max_ore_use(blueprint)
              THEN {WorkItem(geodes,
                             [next EXCEPT !.ore = next.ore - blueprint.ore_cost,
                                          !.ore_robots = next.ore_robots + 1],
                             remaining_ticks - 1)}
              ELSE {})
             \cup
             (IF inventory.ore >= blueprint.clay_cost
                 /\ inventory.clay_robots < max_clay_use(blueprint)
              THEN {WorkItem(geodes,
                             [next EXCEPT !.ore = next.ore - blueprint.clay_cost,
                                          !.clay_robots = next.clay_robots + 1],
                             remaining_ticks - 1)}
              ELSE {})
             \cup
             {WorkItem(geodes, next, remaining_ticks - 1)}

\* next_work.truncate(min(len, 10000))
TruncateLen == 10000

\* The largest element of a non-empty set of numbers.
SetMax(S) == CHOOSE m \in S : \A x \in S : m >= x

\* next_work after the sort and the truncation, as the set of its entries.
\* pushed is the set of <<popped entry, pushed entry>>: next_work holds one
\* copy of an entry for every popped entry that pushed it, equal entries are
\* neighbours after the sort, and an entry keeps a copy iff fewer than
\* TruncateLen copies of entries sort before it.
SortTruncate(pushed) ==
    LET entries == {pr[2] : pr \in pushed}
    IN  IF Cardinality(pushed) <= TruncateLen
        THEN entries
        ELSE {e \in entries :
                Cardinality({pr \in pushed : SortsBefore(pr[2], e)}) < TruncateLen}

\* The loop of simulate_with from one layer on: work holds the entries of one
\* value of remaining_ticks. The entries of a layer that are equal are
\* processed once (seen); entries of different layers differ in
\* remaining_ticks, and the cache holds more entries than all layers
\* together, so it never evicts an entry that could be met again.
RECURSIVE simulate_from(_, _, _)
simulate_from(blueprint, work, best) ==
    LET best2 == Max(best, SetMax({it.geodes : it \in work}))
        done == \E it \in work : it.remaining <= 1
        pushed == UNION {{<<it, nx>> : nx \in Pushes(blueprint, it)} : it \in work}
    IN  IF done THEN best2
        ELSE simulate_from(blueprint, SortTruncate(pushed), best2)

\* simulate_with(blueprint, inventory, ticks)
simulate_with(blueprint, inventory, ticks) ==
    simulate_from(blueprint, {WorkItem(0, inventory, ticks)}, 0)

\* main: minutes for Mode::Part1 and Mode::Part2, and the blueprints Part2 takes.
Part1Minutes == 24
Part2Minutes == 32
Part2Take == 3
\* u16
U16 == 65536

\* The number of blueprints in the input is 1..MaxBlueprints.
MaxBlueprints == 3

\* The blueprints an input is made of: two that yield geodes, one too dear to
\* yield any, and one whose id makes id * geodes pass u16.
BlueprintPool ==
    { Blueprint(1, 1, 1, 1, 1, 1, 1),
      Blueprint(2, 20, 3, 1, 1, 3, 1),
      Blueprint(3, 30, 30, 30, 30, 30, 30),
      Blueprint(400, 1, 1, 1, 1, 1, 1) }

Minutes(mode) == IF mode = "Part1" THEN Part1Minutes ELSE Part2Minutes

\* simulate_with(blueprint, Inventory::new(), minutes) for the blueprints of the pool.
GeodesOf ==
    [b \in BlueprintPool |->
        [m \in {Part1Minutes, Part2Minutes} |-> simulate_with(b, InventoryNew, m)]]

\* A u16 value with the record of an overflow on the way to it: with overflow
\* checks compiled in the overflow panics, without them the value wraps.
Num(n) == [v |-> n, ovf |-> FALSE]
add16(a, b) == [v |-> (a.v + b.v) % U16, ovf |-> a.ovf \/ b.ovf \/ a.v + b.v >= U16]
mul16(a, b) == [v |-> (a.v * b.v) % U16, ovf |-> a.ovf \/ b.ovf \/ a.v * b.v >= U16]

\* The map closures: (blueprint, geodes), then b.id * g for Part1 and g for Part2.
ItemValue(mode, blueprint) ==
    LET geodes == GeodesOf[blueprint][Minutes(mode)]
    IN  IF mode = "Part1" THEN mul16(Num(blueprint.id), Num(geodes)) ELSE Num(geodes)

\* sum() and product(): the value a folder starts from, what it does with the
\* next item, and how the results of the two halves of a split are reduced.
fold_identity(mode) == IF mode = "Part1" THEN Num(0) ELSE Num(1)
fold_step(mode, acc, item) == IF mode = "Part1" THEN add16(acc, item) ELSE mul16(acc, item)

\* A reduction that keeps the result of the left half only.
reduce_left(mode, left, right) == left

reduce(mode, left, right) == IF mode = "Part1" THEN add16(left, right) ELSE mul16(left, right)

\* The items the reduction runs over: all of them, or take(3).
ParLen(mode, bps) == IF mode = "Part1" THEN Len(bps) ELSE Min(Len(bps), Part2Take)

ParRoot == <<0, ParLen(par.mode, par.bps)>>
ParMid(seg) == seg[1] + (seg[2] - seg[1]) \div 2
ParNode(st, how, next, acc) == [st |-> st, how |-> how, next |-> next, acc |-> acc]

\* What the process ends with: a printed value, or a panic.
ParOut(kind, v) == [kind |-> kind, v |-> v]

ParInit ==
    \E n \in 1 .. MaxBlueprints :
      \E bps \in [1 .. n -> BlueprintPool], mode \in {"Part1", "Part2"}, checks \in BOOLEAN :
        par = [pc |-> "run", mode |-> mode, overflow_checks |-> checks, bps |-> bps,
               nodes |-> (<<0, ParLen(mode, bps)>> :>
                              ParNode("open", "none", 0, fold_identity(mode))),
               out |-> ParOut("none", 0)]

\* par_iter().map(..).sum() / .take(3).product() hand the indexed range of
\* the items to the thread pool of the rayon crate, whose code is not part of
\* the repository; its policy is modelled here.  A range is split at its
\* middle in two halves that run in parallel.  The pool has at least one
\* thread and starts with as many splits to spend, so the whole range of two
\* or more items is always split; a half of two or more items is split again
\* when a thread is free to take one part, and folded by one thread if not.
ParSplit(seg) ==
    /\ par.pc = "run"
    /\ seg \in DOMAIN par.nodes
    /\ par.nodes[seg].st = "open"
    /\ (seg[2] - seg[1]) \div 2 >= 1
    /\ par' = [par EXCEPT !.nodes =
                 (<<seg[1], ParMid(seg)>> :> ParNode("open", "none", seg[1], fold_identity(par.mode)))
                 @@ (<<ParMid(seg), seg[2]>> :>
                        ParNode("open", "none", ParMid(seg), fold_identity(par.mode)))
                 @@ [par.nodes EXCEPT ![seg].st = "split", ![seg].how = "split"]]

\* One thread folds the range seg item by item: the next item's blueprint is
\* simulated and its value folded into the thread's own accumulator.
ParFoldStep(seg) ==
    /\ par.pc = "run"
    /\ seg \in DOMAIN par.nodes
    /\ \/ par.nodes[seg].st = "fold"
       \/ /\ par.nodes[seg].st = "open"
          /\ seg # ParRoot \/ seg[2] - seg[1] < 2
    /\ LET node == par.nodes[seg]
           i == IF node.st = "open" THEN seg[1] ELSE node.next
           acc == fold_step(par.mode, node.acc, ItemValue(par.mode, par.bps[i + 1]))
       IN  par' = [par EXCEPT !.nodes[seg] =
                     ParNode(IF i + 1 = seg[2] THEN "done" ELSE "fold", "fold", i + 1, acc)]

\* Both halves of a split range are done: their results are reduced.
ParJoin(seg) ==
    /\ par.pc = "run"
    /\ seg \in DOMAIN par.nodes
    /\ par.nodes[seg].st = "split"
    /\ LET left == par.nodes[<<seg[1], ParMid(seg)>>]
           right == par.nodes[<<ParMid(seg), seg[2]>>]
       IN  /\ left.st = "done"
           /\ right.st = "done"
           /\ par' = [par EXCEPT !.nodes[seg].st = "done",
                                 !.nodes[seg].acc = reduce(par.mode, left.acc, right.acc)]

\* println!("{}", total_score), or the panic of an overflow.
ParPrint ==
    /\ par.pc = "run"
    /\ par.nodes[ParRoot].st = "done"
    /\ LET total == par.nodes[ParRoot].acc
       IN  par' = [par EXCEPT !.pc = "printed",
                              !.out = IF par.overflow_checks /\ total.ovf
                                      THEN ParOut("panic", 0)
                                      ELSE ParOut("value", total.v)]

ParSegs == {<<lo, hi>> : lo \in 0 .. MaxBlueprints, hi \in 0 .. MaxBlueprints}

InitPar == ParInit /\ GridIdle /\ LineIdle /\ AsgIdle /\ RopeIdle /\ CrIdle /\ VaIdle /\ SimIdle /\ EvIdle /\ TwIdle /\ SdIdle
ParFrame == UNCHANGED <<gridVars, lineVars, asgVars, ropeVars, crVars, vaVars, simVars, evVars, twVars, sdVars>>
NextPar ==
    \/ \E seg \in ParSegs : ParSplit(seg) /\ ParFrame
    \/ \E seg \in ParSegs : ParFoldStep(seg) /\ ParFrame
    \/ \E seg \in ParSegs : ParJoin(seg) /\ ParFrame
    \/ ParPrint /\ ParFrame

SpecPar == InitPar /\ [][NextPar]_vars

\* The geodes of the blueprints the reduction runs over, and their scores.
ParGeodes == [i \in 1 .. ParLen(par.mode, par.bps) |-> GeodesOf[par.bps[i]][Minutes(par.mode)]]
RECURSIVE SumTo(_, _)
SumTo(f, n) == IF n = 0 THEN 0 ELSE f[n] + SumTo(f, n - 1)
RECURSIVE ProdRange(_, _, _)
ProdRange(f, lo, hi) == IF lo > hi THEN 1 ELSE f[lo] * ProdRange(f, lo + 1, hi)
ProdTo(f, n) == ProdRange(f, 1, n)

\* The outcome of the run, from the input and the build alone: the sum of
\* id * geodes, or the product of the geodes of the first three blueprints,
\* as a u16; with overflow checks, a panic when a score, the sum, the product
\* or the product of the geodes after the first (the right half of the range)
\* passes u16.
ParExpected ==
    LET n == ParLen(par.mode, par.bps)
        geodes == ParGeodes
        scores == [i \in 1 .. n |-> par.bps[i].id * geodes[i]]
        total == IF par.mode = "Part1" THEN SumTo(scores, n) ELSE ProdTo(geodes, n)
        over == IF par.mode = "Part1"
                THEN total >= U16 \/ \E i \in 1 .. n : scores[i] >= U16
                ELSE total >= U16 \/ ProdRange(geodes, 2, n) >= U16
    IN  IF par.overflow_checks /\ over
        THEN ParOut("panic", 0)
        ELSE ParOut("value", total % U16)

\* C6: the outcome of the run is the same under every schedule of the
\* parallel map and its reduction: the printed total is the value the input
\* determines (as a u16), and in a build with overflow checks whether the
\* run panics instead is determined by the input too.
C6_TotalScheduleFree ==
    par.pc = "printed" => par.out = ParExpected

\* Part2 over three blueprints, the second half of the range split again,
\* the product wrapping around u16.
C6_Witness ==
    /\ par.pc = "printed"
    /\ par.mode = "Part2"
    /\ Len(par.bps) = 3
    /\ <<1, 3>> \in DOMAIN par.nodes
    /\ par.nodes[<<1, 3>>].how = "split"
    /\ ~par.overflow_checks
    /\ ProdTo(ParGeodes, 3) >= U16
    /\ par.out.kind = "value"
    /\ par.out.v # 0

(***************************************************************************)
(*                  aoc9: the rope and the Ctrl-C handler                  *)
(***************************************************************************)
\* The input holds 0..RopeMaxLines lines, the rope 0..RopeMaxKnots knots.
RopeMaxLines == 2
RopeMaxKnots == 2

\* The lines of the input, as sequences of characters: four commands (one
\* with a leading blank, one of no steps), and a line with an invalid
\* ordinal, one too short, and one whose step is not a number.
RopeLinePool ==
    { <<"R", " ", "2">>, <<"U", " ", "1">>, <<" ", "L", " ", "1">>, <<"D", " ", "0">>,
      <<"X", " ", "1">>, <<"R">>, <<"U", " ", "x">> }

\* Coordinate { x, y }
Coordinate(x, y) == [x |-> x, y |-> y]

signum(n) == IF n > 0 THEN 1 ELSE IF n < 0 THEN -1 ELSE 0

\* Coordinate::touches
touches(self, other) == Abs(self.x - other.x) < 2 /\ Abs(self.y - other.y) < 2

\* Coordinate::apply
CoordinateApply(self, ordinal) ==
    CASE ordinal = "Up" -> Coordinate(self.x, self.y + 1)
      [] ordinal = "Down" -> Coordinate(self.x, self.y - 1)
      [] ordinal = "Left" -> Coordinate(self.x - 1, self.y)
      [] ordinal = "Right" -> Coordinate(self.x + 1, self.y)

\* Coordinate::move_toward
move_toward(self, other) ==
    Coordinate(self.x + signum(other.x - self.x), self.y + signum(other.y - self.y))

\* str::trim on a sequence of characters
RECURSIVE trim_start(_)
trim_start(s) == IF s # <<>> /\ Head(s) = " " THEN trim_start(Tail(s)) ELSE s
RECURSIVE trim_end(_)
trim_end(s) ==
    IF s # <<>> /\ s[Len(s)] = " " THEN trim_end(SubSeq(s, 1, Len(s) - 1)) ELSE s
trim(s) == trim_end(trim_start(s))

\* Ordinal::from_str: None stands for the error.
OrdinalFromStr(s) ==
    IF Len(s) # 1 THEN None
    ELSE CASE s[1] = "R" -> Some("Right")
           [] s[1] = "U" -> Some("Up")
           [] s[1] = "D" -> Some("Down")
           [] s[1] = "L" -> Some("Left")
           [] OTHER -> None

\* u32::from_str: decimal digits after an optional plus sign (a number past
\* u32::MAX is an error too; the lines of the pool have one digit).
Digits == <<"0", "1", "2", "3", "4", "5", "6", "7", "8", "9">>
DigitOf(c) == (CHOOSE d \in 1 .. 10 : Digits[d] = c) - 1
RECURSIVE DigitsValue(_, _)
DigitsValue(s, acc) ==
    IF s = <<>> THEN acc ELSE DigitsValue(Tail(s), 10 * acc + DigitOf(Head(s)))
U32FromStr(s) ==
    LET ds == IF s # <<>> /\ Head(s) = "+" THEN Tail(s) ELSE s
    IN  IF ds = <<>> \/ \E k \in 1 .. Len(ds) : \A d \in 1 .. 10 : Digits[d] # ds[k]
        THEN None
        ELSE Some(DigitsValue(ds, 0))

\* Command::from_str: the ordinal is s[0..1] and the step s[2..] of the
\* trimmed line; None stands for the error.
CommandFromStr(line) ==
    LET s == trim(line)
    IN  IF Len(s) < 3 THEN None
        ELSE LET ordinal == OrdinalFromStr(SubSeq(s, 1, 1))
                 step == U32FromStr(SubSeq(s, 3, Len(s)))
             IN  IF ordinal = None \/ step = None THEN None
                 ELSE Some([ordinal |-> ordinal[1], step |-> step[1]])

\* Knot::new: the knot is at the origin and has visited it.
KnotNew ==
    [position |-> Coordinate(0, 0), visited_positions |-> {Coordinate(0, 0)}]

\* Knot::move_to
move_to(knot, position) ==
    [position |-> position,
     visited_positions |-> knot.visited_positions \cup {position}]

\* Knot::apply
KnotApply(knot, ordinal) == move_to(knot, CoordinateApply(knot.position, ordinal))

\* Knot::follow
follow(self, other) ==
    IF ~touches(self.position, other.position)
    THEN move_toward(self.position, other.position)
    ELSE self.position

\* for knot_offset in 1..knots.len(): each knot follows the one before it,
\* which has already moved (the sequence is 1-based here).
RECURSIVE Followers(_, _)
Followers(knots, k) ==
    IF k > Len(knots) THEN knots
    ELSE Followers([knots EXCEPT ![k] = move_to(knots[k], follow(knots[k], knots[k - 1]))],
                   k + 1)

\* One pass of the inner loop: the head moves, then the followers.
StepKnots(knots, ordinal) ==
    Followers([knots EXCEPT ![1] = KnotApply(knots[1], ordinal)], 2)


\* An inner loop that also stops as soon as the flag is cleared.
InnerLoopContinues_cancel(left, running) == left > 0 /\ running

\* for _ in 0..command.step: the loop goes on while steps are left; the
\* flag running has no part in it.
InnerLoopContinues(left, running) == left > 0

\* main, up to the flag `running`: the arguments are parsed and the knots
\* made.
RopeInit ==
    \E num_knots \in 0 .. RopeMaxKnots, n \in 0 .. RopeMaxLines, verbose \in BOOLEAN :
      \E lines \in [1 .. n -> RopeLinePool] :
        rope = [pc |-> "start", verbose |-> verbose, lines |-> lines, i |-> 0,
                command |-> None, left |-> 0,
                knots |-> [k \in 1 .. num_knots |-> KnotNew],
                applied |-> 0, running |-> TRUE, out |-> None]

\* ctrlc::set_handler(..)? and, with --verbose, the three execute!(..)? that
\* enter the alternate screen, clear it and hide the cursor: each can fail,
\* and main then returns the error before any line is read.
RopeSetup ==
    /\ rope.pc = "start"
    /\ \/ rope' = [rope EXCEPT !.pc = "read"]
       \/ rope' = [rope EXCEPT !.pc = "error"]

\* The handler of ctrlc::set_handler, run on its own thread at any moment
\* of the run.
RopeCtrlC ==
    /\ rope.pc \in {"read", "step", "check", "print"}
    /\ rope' = [rope EXCEPT !.running = FALSE]

\* The next item of stdin.lines(): the end of the input ends the loop, a
\* line that does not parse ends main with the error, a command starts
\* its steps.
RopeReadLine ==
    /\ rope.pc = "read"
    /\ IF rope.i = Len(rope.lines)
       THEN rope' = [rope EXCEPT !.pc = "print"]
       ELSE LET command == CommandFromStr(rope.lines[rope.i + 1])
            IN  IF command = None
                THEN rope' = [rope EXCEPT !.pc = "error", !.i = @ + 1]
                ELSE rope' = [rope EXCEPT
                                !.pc = IF InnerLoopContinues(command[1].step, rope.running)
                                       THEN "step" ELSE "check",
                                !.i = @ + 1,
                                !.command = command,
                                !.left = command[1].step]

\* One pass of the inner loop; knots[0] panics when there is no knot, and
\* with --verbose the frame is rendered, which can fail.
RopeStep ==
    /\ rope.pc = "step"
    /\ IF Len(rope.knots) = 0
       THEN rope' = [rope EXCEPT !.pc = "panic"]
       ELSE LET after == [rope EXCEPT
                            !.knots = StepKnots(rope.knots, rope.command[1].ordinal),
                            !.applied = @ + 1,
                            !.left = @ - 1]
            IN  \/ rope' = [after EXCEPT
                              !.pc = IF InnerLoopContinues(after.left, after.running)
                                     THEN "step" ELSE "check"]
                \/ /\ rope.verbose
                   /\ rope' = [after EXCEPT !.pc = "error"]

\* if !running.load(Ordering::SeqCst) { break; }
RopeCheck ==
    /\ rope.pc = "check"
    /\ rope' = [rope EXCEPT !.pc = IF ~rope.running THEN "print" ELSE "read"]

\* After the loop: with --verbose execute!(Show)? and
\* execute!(LeaveAlternateScreen)?, which can fail and end main with the
\* error before anything is printed; then
\* if let Some(last) = knots.last() { println!("{}", last.visited_positions.len()) }
RopePrint ==
    /\ rope.pc = "print"
    /\ \/ rope' = [rope EXCEPT
                     !.pc = "done",
                     !.out = IF Len(rope.knots) = 0 THEN None
                             ELSE Some(Cardinality(
                                      rope.knots[Len(rope.knots)].visited_positions))]
       \/ /\ rope.verbose
          /\ rope' = [rope EXCEPT !.pc = "error"]

InitRope == RopeInit /\ GridIdle /\ LineIdle /\ AsgIdle /\ ParIdle /\ CrIdle /\ VaIdle /\ SimIdle /\ EvIdle /\ TwIdle /\ SdIdle
RopeFrame == UNCHANGED <<gridVars, lineVars, asgVars, parVars, crVars, vaVars, simVars, evVars, twVars, sdVars>>
NextRope ==
    \/ RopeSetup /\ RopeFrame
    \/ RopeCtrlC /\ RopeFrame
    \/ RopeReadLine /\ RopeFrame
    \/ RopeStep /\ RopeFrame
    \/ RopeCheck /\ RopeFrame
    \/ RopePrint /\ RopeFrame

SpecRope == InitRope /\ [][NextRope]_vars

\* The rope after all the steps of one command.
RECURSIVE ApplyCommand(_, _, _)
ApplyCommand(knots, ordinal, step) ==
    IF step = 0 THEN knots
    ELSE ApplyCommand(StepKnots(knots, ordinal), ordinal, step - 1)

\* The rope after all the steps of the first k lines of the input.
RECURSIVE KnotsAfter(_)
KnotsAfter(k) ==
    IF k = 0 THEN [j \in 1 .. Len(rope.knots) |-> KnotNew]
    ELSE LET command == CommandFromStr(rope.lines[k])
         IN  ApplyCommand(KnotsAfter(k - 1), command[1].ordinal, command[1].step)

\* The count is about to be printed, or has been.
RopePrinting == rope.pc \in {"print", "done"}

\* C7 as stated: a count is printed only when every line of the input has
\* been read and applied; no event ends the loop on a prefix of the input.
C7_NoCancellation ==
    (rope.pc = "done" /\ rope.out # None) => rope.i = Len(rope.lines)

\* C7 as amended: the run can be cancelled, but only between command lines.
\* When the count is printed every line read so far has had all of its
\* steps applied, the count is that of the rope after exactly these lines,
\* and lines are left unread only if the flag running was cleared.
C7_CancelOnlyBetweenLines ==
    RopePrinting =>
        /\ rope.left = 0
        /\ rope.knots = KnotsAfter(rope.i)
        /\ rope.i < Len(rope.lines) => ~rope.running
        /\ (rope.pc = "done" /\ Len(rope.knots) > 0) =>
               rope.out = Some(Cardinality(
                              KnotsAfter(rope.i)[Len(rope.knots)].visited_positions))

\* Ctrl-C during the first of two commands, one of two steps: the count is
\* printed after both steps of the first command and none of the second.
C7_Witness ==
    /\ rope.pc = "done"
    /\ ~rope.running
    /\ Len(rope.lines) = 2
    /\ rope.i = 1
    /\ rope.command[1].step = 2
    /\ rope.applied = 2
    /\ rope.out = Some(2)


(***************************************************************************)
(*                    aoc5: Scene::parse, run and main                     *)
(***************************************************************************)
\* The input holds 1..CrMaxLines lines.
CrMaxLines == 3

\* Pieces of lines, as sequences of characters.
SP == <<" ">>
MOVE == <<"m", "o", "v", "e">>
FROM == <<"f", "r", "o", "m">>
TO == <<"t", "o">>
CrateCell(ch) == <<"[", ch, "]">>

\* The lines of the input: crate rows, the line of stack numbers, the blank
\* line, moves, and lines that are none of these: a word, a move with a
\* misspelt keyword, a move with a leading blank, a move whose count is not
\* a number, a move cut short, and a crate row cut short.
CrLinePool ==
    { CrateCell("A") \o SP \o CrateCell("B"),
      SP \o SP \o SP \o SP \o CrateCell("C"),
      SP \o <<"1">> \o SP \o SP \o SP \o <<"2">> \o SP,
      <<>>,
      MOVE \o SP \o <<"1">> \o SP \o FROM \o SP \o <<"1">> \o SP \o TO \o SP \o <<"2">>,
      MOVE \o SP \o <<"2">> \o SP \o FROM \o SP \o <<"2">> \o SP \o TO \o SP \o <<"1">>,
      <<"h", "e", "l", "l", "o">>,
      MOVE \o SP \o <<"1">> \o SP \o <<"x">> \o SP \o <<"2">> \o SP \o <<"y">> \o SP \o <<"1">>,
      SP \o MOVE \o SP \o <<"1">> \o SP \o FROM \o SP \o <<"1">> \o SP \o TO \o SP \o <<"2">>,
      MOVE \o SP \o <<"x">> \o SP \o FROM \o SP \o <<"1">> \o SP \o TO \o SP \o <<"2">>,
      MOVE \o SP \o <<"1">> \o SP \o FROM \o SP \o <<"1">>,
      <<"[">> }

\* str::starts_with
starts_with(s, prefix) ==
    Len(s) >= Len(prefix) /\ SubSeq(s, 1, Len(prefix)) = prefix

\* str::split(' '): the pieces between the blanks, empty pieces included.
RECURSIVE split(_)
split(s) ==
    IF \A k \in 1 .. Len(s) : s[k] # " " THEN <<s>>
    ELSE LET k == CHOOSE j \in 1 .. Len(s) :
                      s[j] = " " /\ \A h \in 1 .. (j - 1) : s[h] # " "
         IN  <<SubSeq(s, 1, k - 1)>> \o split(SubSeq(s, k + 1, Len(s)))

\* The body of `for (index, _) in line.match_indices('[')` from the byte
\* index on (0-based): None stands for the error "invalid column
\* definition".
RECURSIVE ParseCrateRow(_, _, _)
ParseCrateRow(line, index, stacks) ==
    IF index >= Len(line) THEN Some(stacks)
    ELSE IF line[index + 1] # "[" THEN ParseCrateRow(line, index + 1, stacks)
    ELSE LET column == index \div 4
             grown == IF column >= Len(stacks)
                      THEN stacks \o [k \in 1 .. (column + 1 - Len(stacks)) |-> <<>>]
                      ELSE stacks
         IN  IF index + 2 > Len(line) THEN None
             ELSE ParseCrateRow(line, index + 1,
                      [grown EXCEPT ![column + 1] = Append(@, line[index + 2])])

\* The move branch: parts.nth(1) three times, each parsed as a number;
\* None stands for the error.
ParseMove(line) ==
    LET parts == split(line)
        field(k) == IF Len(parts) < k THEN None ELSE U32FromStr(parts[k])
    IN  IF field(2) = None \/ field(4) = None \/ field(6) = None THEN None
        ELSE Some([num_crates |-> field(2)[1],
                   source_stack |-> field(4)[1],
                   dest_stack |-> field(6)[1]])

\* for stack in stacks.iter_mut() { stack.reverse() }
reverse(stack) == [k \in 1 .. Len(stack) |-> stack[Len(stack) + 1 - k]]


\* Scene::move_between, with the stacks numbered from 0 as in the code; None
\* stands for the error of a missing stack and for the panic of taking more
\* crates than the source stack holds.
move_between(stacks, count, source_stack, dest_stack) ==
    IF source_stack < 0 \/ source_stack >= Len(stacks) THEN None
    ELSE LET source == stacks[source_stack + 1]
         IN  IF count > Len(source) THEN None
             ELSE LET items == SubSeq(source, Len(source) - count + 1, Len(source))
                      taken == [stacks EXCEPT ![source_stack + 1] =
                                   SubSeq(source, 1, Len(source) - count)]
                  IN  IF dest_stack < 0 \/ dest_stack >= Len(stacks) THEN None
                      ELSE Some([taken EXCEPT ![dest_stack + 1] = @ \o items])

\* Mode::Part1: for _ in 0..command.num_crates { move_between(1, ...)? }
RECURSIVE MoveOneByOne(_, _, _, _)
MoveOneByOne(stacks, n, source_stack, dest_stack) ==
    IF n = 0 THEN Some(stacks)
    ELSE LET moved == move_between(stacks, 1, source_stack, dest_stack)
         IN  IF moved = None THEN None
             ELSE MoveOneByOne(moved[1], n - 1, source_stack, dest_stack)

\* The body of the loop of Scene::run for one command.
RunCommand(stacks, mode, command) ==
    IF mode = "Part1"
    THEN MoveOneByOne(stacks, command.num_crates,
                      command.source_stack - 1, command.dest_stack - 1)
    ELSE move_between(stacks, command.num_crates,
                      command.source_stack - 1, command.dest_stack - 1)

\* The output of main: the top crate of every stack, a blank for an empty one.
TopCrates(stacks) ==
    [k \in 1 .. Len(stacks) |->
        IF stacks[k] = <<>> THEN " " ELSE stacks[k][Len(stacks[k])]]

CrInit ==
    \E n \in 1 .. CrMaxLines, mode \in {"Part1", "Part2"} :
      \E lines \in [1 .. n -> CrLinePool] :
        cr = [pc |-> "parse", mode |-> mode, lines |-> lines, i |-> 0,
              stacks |-> <<>>, commands |-> <<>>, done |-> 0, out |-> None]

\* One pass of the loop of Scene::parse: a crate row, a move, or a line
\* that is neither, which has no branch and is passed over.
CrParseLine ==
    /\ cr.pc = "parse"
    /\ cr.i < Len(cr.lines)
    /\ LET line == cr.lines[cr.i + 1]
       IN  IF starts_with(trim_start(line), <<"[">>)
           THEN LET row == ParseCrateRow(line, 0, cr.stacks)
                IN  IF row = None
                    THEN cr' = [cr EXCEPT !.pc = "panic", !.i = @ + 1]
                    ELSE cr' = [cr EXCEPT !.i = @ + 1, !.stacks = row[1]]
           ELSE IF starts_with(line, MOVE)
           THEN LET command == ParseMove(line)
                IN  IF command = None
                    THEN cr' = [cr EXCEPT !.pc = "panic", !.i = @ + 1]
                    ELSE cr' = [cr EXCEPT !.i = @ + 1,
                                          !.commands = Append(@, command[1])]
           ELSE cr' = [cr EXCEPT !.i = @ + 1]

\* The end of Scene::parse: the stacks are reversed and the scene returned.
CrParseEnd ==
    /\ cr.pc = "parse"
    /\ cr.i = Len(cr.lines)
    /\ cr' = [cr EXCEPT !.pc = "run",
                        !.stacks = [k \in 1 .. Len(cr.stacks) |-> reverse(cr.stacks[k])]]

\* One command of Scene::run; main unwraps its error.
CrRunCommand ==
    /\ cr.pc = "run"
    /\ cr.done < Len(cr.commands)
    /\ LET moved == RunCommand(cr.stacks, cr.mode, cr.commands[cr.done + 1])
       IN  IF moved = None
           THEN cr' = [cr EXCEPT !.pc = "panic"]
           ELSE cr' = [cr EXCEPT !.done = @ + 1, !.stacks = moved[1]]

\* println!("{}", output)
CrPrint ==
    /\ cr.pc = "run"
    /\ cr.done = Len(cr.commands)
    /\ cr' = [cr EXCEPT !.pc = "done", !.out = Some(TopCrates(cr.stacks))]

InitCr == CrInit /\ GridIdle /\ LineIdle /\ AsgIdle /\ ParIdle /\ RopeIdle /\ VaIdle /\ SimIdle /\ EvIdle /\ TwIdle /\ SdIdle
CrFrame == UNCHANGED <<gridVars, lineVars, asgVars, parVars, ropeVars, vaVars, simVars, evVars, twVars, sdVars>>
NextCr ==
    \/ CrParseLine /\ CrFrame
    \/ CrParseEnd /\ CrFrame
    \/ CrRunCommand /\ CrFrame
    \/ CrPrint /\ CrFrame

SpecCr == InitCr /\ [][NextCr]_vars

\* The lines the puzzle input is made of.
IsDigit(ch) == \E d \in 1 .. 10 : Digits[d] = ch
IsNumber(s) == s # <<>> /\ \A k \in 1 .. Len(s) : IsDigit(s[k])
IsBlankLine(line) == \A k \in 1 .. Len(line) : line[k] = " "
IsStackNumberLine(line) ==
    /\ \A k \in 1 .. Len(line) : line[k] = " " \/ IsDigit(line[k])
    /\ \E k \in 1 .. Len(line) : IsDigit(line[k])
\* A crate row: cells of three characters, "[X]" or blank, one blank apart.
IsCrateRow(line) ==
    /\ Len(line) % 4 = 3
    /\ \E k \in 1 .. Len(line) : line[k] = "["
    /\ \A c \in 0 .. (Len(line) \div 4) :
          /\ \/ /\ line[4 * c + 1] = "["
                /\ line[4 * c + 2] \notin {" ", "[", "]"}
                /\ line[4 * c + 3] = "]"
             \/ SubSeq(line, 4 * c + 1, 4 * c + 3) = <<" ", " ", " ">>
          /\ 4 * c + 4 <= Len(line) => line[4 * c + 4] = " "
\* move N from A to B
IsMoveLine(line) ==
    LET parts == split(line)
    IN  /\ Len(parts) = 6
        /\ parts[1] = MOVE /\ parts[3] = FROM /\ parts[5] = TO
        /\ IsNumber(parts[2]) /\ IsNumber(parts[4]) /\ IsNumber(parts[6])
WellFormedLine(line) ==
    IsCrateRow(line) \/ IsBlankLine(line) \/ IsStackNumberLine(line) \/ IsMoveLine(line)

\* C8: a malformed line is fatal: when main prints an answer, every line of
\* the input was a crate row, a blank or stack-number line, or a
\* well-formed move.
C8_MalformedIsFatal ==
    cr.pc = "done" => \A k \in 1 .. Len(cr.lines) : WellFormedLine(cr.lines[k])


(***************************************************************************)
(*                 aoc16: Scene::find_best and its memo                    *)
(***************************************************************************)
\* The flow rate of the valve BB is 1..VaMaxFlow.
VaMaxFlow == 2

\* State::initial: the minutes of Part1 and of Part2 (and of the restart in
\* find_best_rec).
Part1Remaining == 30
Part2Remaining == 26

\* ValveName: two bytes, here two capital letters.
Letters ==
    <<"A", "B", "C", "D", "E", "F", "G", "H", "I", "J", "K", "L", "M",
      "N", "O", "P", "Q", "R", "S", "T", "U", "V", "W", "X", "Y", "Z">>
\* byte - b'A'
LetterOffset(ch) == (CHOOSE k \in 1 .. 26 : Letters[k] = ch) - 1

\* ValveName::ordinal
ordinal(name) == LetterOffset(name[1]) * 26 + LetterOffset(name[2])

\* The derived Ord of ValveName: the bytes in order.
NameLess(a, b) ==
    \/ LetterOffset(a[1]) < LetterOffset(b[1])
    \/ a[1] = b[1] /\ LetterOffset(a[2]) < LetterOffset(b[2])

AA == <<"A", "A">>
BB == <<"B", "B">>
CC == <<"C", "C">>
XX == <<"X", "X">>

\* Line: valve, flow_rate, neighbors
ValveLine(valve, flow_rate, neighbors) ==
    [valve |-> valve, flow_rate |-> flow_rate, neighbors |-> neighbors]

\* The inputs: two valves BB and CC behind a junction XX; AA, BB and CC
\* joined to each other; AA with a flow rate of its own next to BB; CC
\* with a tunnel to AA but none from it; and BB with two lines, the second
\* of flow rate 0. BB has the flow rate f1, the other valve with a flow rate
\* has f2.
VaInputs ==
    UNION { { <<ValveLine(AA, 0, <<XX>>), ValveLine(XX, 0, <<AA, BB, CC>>),
                ValveLine(BB, f1, <<XX>>), ValveLine(CC, f2, <<XX>>)>>,
              <<ValveLine(AA, 0, <<BB, CC>>), ValveLine(BB, f1, <<AA, CC>>),
                ValveLine(CC, f2, <<AA, BB>>)>>,
              <<ValveLine(AA, f2, <<BB>>), ValveLine(BB, f1, <<AA>>)>>,
              <<ValveLine(AA, 0, <<BB>>), ValveLine(BB, f1, <<AA>>),
                ValveLine(CC, f2, <<AA>>)>>,
              <<ValveLine(AA, 0, <<BB>>), ValveLine(BB, f1, <<AA>>),
                ValveLine(BB, 0, <<AA>>)>> }
            : f1 \in 1 .. VaMaxFlow, f2 \in {1} }

\* Scene::parse, from the parsed lines on: the nodes and edges of the graph
\* and the openable valves with their flow rates.  A line inserts its flow
\* rate only when it is positive, so a valve named by several lines keeps the
\* flow rate of its last line with a positive one.
SceneOf(lines) ==
    LET idx == 1 .. Len(lines)
    IN  [nodes |-> {lines[k].valve : k \in idx}
                   \cup UNION {{lines[k].neighbors[j] : j \in 1 .. Len(lines[k].neighbors)}
                               : k \in idx},
         edges |-> UNION {{<<lines[k].valve, lines[k].neighbors[j]>>
                              : j \in 1 .. Len(lines[k].neighbors)} : k \in idx},
         openable_valves |->
             [v \in {lines[k].valve : k \in {j \in idx : lines[j].flow_rate > 0}} |->
                 lines[CHOOSE k \in idx :
                           /\ lines[k].valve = v
                           /\ lines[k].flow_rate > 0
                           /\ \A j \in idx :
                                  lines[j].valve = v /\ lines[j].flow_rate > 0 => j <= k
                      ].flow_rate]]

\* i32::MAX, the distance floyd_warshall gives to a pair with no path.
I32Max == 2147483647

\* floyd_warshall(graph, |_| 1): the relaxation through the nodes of ks.
RECURSIVE floyd_warshall_via(_, _)
floyd_warshall_via(dist, ks) ==
    IF ks = {} THEN dist
    ELSE LET k == CHOOSE x \in ks : TRUE
             relaxed == [pr \in DOMAIN dist |->
                            IF dist[<<pr[1], k>>] = I32Max \/ dist[<<k, pr[2]>>] = I32Max
                            THEN dist[pr]
                            ELSE Min(dist[pr], dist[<<pr[1], k>>] + dist[<<k, pr[2]>>])]
         IN  floyd_warshall_via(relaxed, ks \ {k})

floyd_warshall(scene) ==
    floyd_warshall_via(
        [pr \in scene.nodes \X scene.nodes |->
            IF pr[1] = pr[2] THEN 0
            ELSE IF pr \in scene.edges THEN 1 ELSE I32Max],
        scene.nodes)

\* A set of valve names as the sequence a BTreeMap iterates in.
RECURSIVE SortedNames(_)
SortedNames(S) ==
    IF S = {} THEN <<>>
    ELSE LET least == CHOOSE a \in S : \A b \in S \ {a} : NameLess(a, b)
         IN  <<least>> \o SortedNames(S \ {least})

\* find_best up to the first call of find_best_rec: the useful valves are the
\* openable ones and then the start; Context::build.
ContextOf(scene) ==
    LET useful_valves == SortedNames(DOMAIN scene.openable_valves) \o <<AA>>
    IN  [useful_valves |-> useful_valves,
         useful_valves_len |-> Len(useful_valves),
         distances |-> floyd_warshall(scene)]

\* State
State(open_valves, position, remaining, is_part2) ==
    [open_valves |-> open_valves, position |-> position,
     remaining |-> remaining, is_part2 |-> is_part2]

\* State::initial
StateInitial(start, is_part2) ==
    State({}, start, IF is_part2 THEN Part2Remaining ELSE Part1Remaining, is_part2)

\* State::next
StateNext(state) == [state EXCEPT !.remaining = @ - 1]

\* State::can_open
can_open(state, position) == ordinal(position) \notin state.open_valves

\* State::open
StateOpen(state, position) ==
    [state EXCEPT !.open_valves = @ \cup {ordinal(position)}]

\* Context::is_done
is_done(context, state) == Cardinality(state.open_valves) = context.useful_valves_len


\* A memo whose key leaves out the minutes that remain.
MemoKey_position(state) == [state EXCEPT !.remaining = 0]

\* The key of context.memo: the whole State (derive Hash, PartialEq, Eq).
MemoKey(state) == state

\* One activation of find_best_rec: its arguments, where it stands (at its
\* entry, in its options, or waiting for the restarted search), the next
\* option k (0 is opening the valve, k is moving to useful_valves[k]), res,
\* and what the pending call's result is added to.
Frame(state, is_part2) ==
    [state |-> state, is_part2 |-> is_part2, phase |-> "enter",
     k |-> 0, res |-> 0, pending |-> 0]

VaTop == va.stack[Len(va.stack)]
VaPop == SubSeq(va.stack, 1, Len(va.stack) - 1)

\* return *v for a memo entry
VaReturned(v) == [va EXCEPT !.stack = VaPop, !.ret = Some(v)]

\* context.memo.insert(state, value); value
VaFinished(v) ==
    [va EXCEPT !.stack = VaPop, !.ret = Some(v),
               !.memo = (MemoKey(VaTop.state) :> v) @@ va.memo]

\* main and find_best up to the first call of find_best_rec.
VaInit ==
    \E lines \in VaInputs, is_part2 \in BOOLEAN :
        va = [pc |-> "run", is_part2 |-> is_part2, lines |-> lines,
              context |-> ContextOf(SceneOf(lines)),
              memo |-> <<>>, stack |-> <<Frame(StateInitial(AA, is_part2), is_part2)>>,
              ret |-> None, hits |-> 0, out |-> None]

\* The entry of find_best_rec: the memo, the end of the minutes (where
\* Part2 starts the second search from AA), is_done.
VaEnter ==
    /\ va.pc = "run" /\ va.ret = None /\ va.stack # <<>>
    /\ VaTop.phase = "enter"
    /\ LET state == VaTop.state
           n == Len(va.stack)
       IN  IF MemoKey(state) \in DOMAIN va.memo
           THEN va' = [VaReturned(va.memo[MemoKey(state)]) EXCEPT !.hits = @ + 1]
           ELSE IF state.remaining = 0
           THEN IF VaTop.is_part2
                THEN va' = [va EXCEPT !.stack =
                              [va.stack EXCEPT ![n].phase = "restart"]
                              \o <<Frame([state EXCEPT !.remaining = Part2Remaining,
                                                       !.position = AA,
                                                       !.is_part2 = FALSE], FALSE)>>]
                ELSE va' = VaFinished(0)
           ELSE IF is_done(va.context, state)
           THEN va' = VaFinished(0)
           ELSE va' = [va EXCEPT !.stack[n].phase = "options"]

\* The next option of the activation on top: opening the valve it is at,
\* or moving to the next useful valve; an option that applies calls
\* find_best_rec.
VaOption ==
    /\ va.pc = "run" /\ va.ret = None /\ va.stack # <<>>
    /\ VaTop.phase = "options"
    /\ VaTop.k <= Len(va.context.useful_valves)
    /\ LET state == VaTop.state
           n == Len(va.stack)
           k == VaTop.k
           openable_valves == SceneOf(va.lines).openable_valves
           skip == [va EXCEPT !.stack[n].k = k + 1]
           call(next, contribution) ==
               [va EXCEPT !.stack =
                   [va.stack EXCEPT ![n].k = k + 1, ![n].pending = contribution]
                   \o <<Frame(next, VaTop.is_part2)>>]
       IN  IF k = 0
           THEN IF state.position \in DOMAIN openable_valves
                   /\ can_open(state, state.position)
                THEN va' = call(StateOpen(StateNext(state), state.position),
                                (state.remaining - 1) * openable_valves[state.position])
                ELSE va' = skip
           ELSE LET item == va.context.useful_valves[k]
                IN  IF item = state.position \/ ~can_open(state, item)
                    THEN va' = skip
                    ELSE LET distance == va.context.distances[<<state.position, item>>]
                         IN  IF distance <= state.remaining
                             THEN va' = call([state EXCEPT !.position = item,
                                                           !.remaining = @ - distance], 0)
                             ELSE va' = skip

\* A call of find_best_rec has returned: res = max(res, ... + value), or,
\* for the restarted search, the value is the value of the activation.
VaResume ==
    /\ va.pc = "run" /\ va.ret # None /\ va.stack # <<>>
    /\ LET n == Len(va.stack)
           v == va.ret[1]
       IN  IF VaTop.phase = "restart"
           THEN va' = VaFinished(v)
           ELSE va' = [va EXCEPT !.ret = None,
                                 !.stack[n].res = Max(@, VaTop.pending + v)]

\* The options are through: the value is res.
VaFinish ==
    /\ va.pc = "run" /\ va.ret = None /\ va.stack # <<>>
    /\ VaTop.phase = "options"
    /\ VaTop.k > Len(va.context.useful_valves)
    /\ va' = VaFinished(VaTop.res)

\* println!("{:?}", best)
VaPrint ==
    /\ va.pc = "run" /\ va.ret # None /\ va.stack = <<>>
    /\ va' = [va EXCEPT !.pc = "done", !.out = va.ret]

InitVa == VaInit /\ GridIdle /\ LineIdle /\ AsgIdle /\ ParIdle /\ RopeIdle /\ CrIdle /\ SimIdle /\ EvIdle /\ TwIdle /\ SdIdle
VaFrame == UNCHANGED <<gridVars, lineVars, asgVars, parVars, ropeVars, crVars, simVars, evVars, twVars, sdVars>>
NextVa ==
    \/ VaEnter /\ VaFrame
    \/ VaOption /\ VaFrame
    \/ VaResume /\ VaFrame
    \/ VaFinish /\ VaFrame
    \/ VaPrint /\ VaFrame

SpecVa == InitVa /\ [][NextVa]_vars


\* The value find_best_rec computes for state when the values of its calls
\* are taken from lookup: the recursion with no memo.
RecBody(scene, context, state, lookup) ==
    IF state.remaining = 0
    THEN IF state.is_part2
         THEN lookup[[state EXCEPT !.remaining = Part2Remaining,
                                   !.position = AA,
                                   !.is_part2 = FALSE]]
         ELSE 0
    ELSE IF is_done(context, state) THEN 0
    ELSE LET opened ==
                 IF state.position \in DOMAIN scene.openable_valves
                    /\ can_open(state, state.position)
                 THEN {(state.remaining - 1) * scene.openable_valves[state.position]
                       + lookup[StateOpen(StateNext(state), state.position)]}
                 ELSE {}
             moved ==
                 {lookup[[state EXCEPT !.position = context.useful_valves[k],
                                       !.remaining =
                                           @ - context.distances[<<state.position,
                                                                   context.useful_valves[k]>>]]]
                    : k \in {j \in 1 .. Len(context.useful_valves) :
                               /\ context.useful_valves[j] # state.position
                               /\ can_open(state, context.useful_valves[j])
                               /\ context.distances[<<state.position,
                                                      context.useful_valves[j]>>]
                                     <= state.remaining}}
         IN  SetMax({0} \cup opened \cup moved)

\* The states with the given minutes remaining.
StatesAt(scene, context, remaining, is_part2) ==
    {State(open_valves, position, remaining, is_part2) :
        open_valves \in SUBSET {ordinal(v) : v \in DOMAIN scene.openable_valves},
        position \in {context.useful_valves[k] : k \in 1 .. Len(context.useful_valves)}}

\* The values of the recursion for the states of remaining..last minutes,
\* added to those of the states with fewer minutes.
RECURSIVE RecFill(_, _, _, _, _, _)
RecFill(scene, context, table, remaining, last, is_part2) ==
    IF remaining > last THEN table
    ELSE RecFill(scene, context,
                 [st \in StatesAt(scene, context, remaining, is_part2) |->
                     RecBody(scene, context, st, table)] @@ table,
                 remaining + 1, last, is_part2)

\* The values of the recursion of find_best_rec for all states of an input:
\* those of one search, then those of the first search of Part2.
RecTable(lines) ==
    LET scene == SceneOf(lines)
        context == ContextOf(scene)
        single == RecFill(scene, context, <<>>, 0, Part1Remaining, FALSE)
    IN  RecFill(scene, context, single, 0, Part2Remaining, TRUE)

\* The most pressure one agent releases from position on with t minutes
\* left, opening valves of S only: it walks to a valve of S, opens it, and
\* goes on.
RECURSIVE BestFrom(_, _, _, _, _)
BestFrom(scene, distances, position, t, S) ==
    SetMax({0} \cup
           {(t - distances[<<position, v>>] - 1) * scene.openable_valves[v]
            + BestFrom(scene, distances, v, t - distances[<<position, v>>] - 1, S \ {v})
              : v \in {w \in S : distances[<<position, w>>] < t}})

\* The most pressure of one agent in 30 minutes and of two agents in 26
\* minutes each, who share out the valves between them.
BestOf(lines) ==
    LET scene == SceneOf(lines)
        distances == floyd_warshall(scene)
        valves == DOMAIN scene.openable_valves
    IN  [one |-> BestFrom(scene, distances, AA, Part1Remaining, valves),
         two |-> SetMax({BestFrom(scene, distances, AA, Part2Remaining, S)
                         + BestFrom(scene, distances, AA, Part2Remaining, valves \ S)
                           : S \in SUBSET valves})]

\* Both for the inputs.
VaTables == [lines \in VaInputs |-> RecTable(lines)]
VaBest == [lines \in VaInputs |-> BestOf(lines)]

\* C9: find_best(true) prints the most pressure two agents can release.
C9_TwoAgentBest ==
    (va.pc = "done" /\ va.is_part2) => va.out = Some(VaBest[va.lines].two)

\* C10: find_best(false) prints the most pressure one agent can release in
\* 30 minutes, which is also the value of the recursion with no memo; and
\* every entry of the memo holds the value the recursion has for its state.
C10_Part1Best ==
    ~va.is_part2 =>
        /\ \A st \in DOMAIN va.memo : va.memo[st] = VaTables[va.lines][st]
        /\ va.pc = "done" =>
              /\ va.out = Some(VaBest[va.lines].one)
              /\ va.out = Some(VaTables[va.lines][StateInitial(AA, FALSE)])

\* Part1 on the input with the junction: the memo answered calls, and the
\* answer is that of opening the valve of rate 2 with 27 minutes left and
\* the valve of rate 1 with 24 minutes left.
C10_Witness ==
    /\ va.pc = "done"
    /\ ~va.is_part2
    /\ va.lines[1].neighbors = <<XX>>
    /\ va.hits > 0
    /\ va.out = Some(78)


(***************************************************************************)
(*            aoc19: simulate_with against the build schedules             *)
(***************************************************************************)
\* simulate_with is called with 1..SimMaxTicks ticks.
SimMaxTicks == 11

\* The blueprints simulate_with is called with: one whose geode robot costs
\* ore only, as much as an ore robot, and one whose robots all cost 2 ore.
SimBlueprints ==
    { Blueprint(1, 2, 3, 3, 3, 2, 0),
      Blueprint(2, 2, 2, 2, 2, 2, 1) }

Robots == {"none", "ore", "clay", "obsidian", "geode"}

\* What a robot costs: (ore, clay, obsidian).
RobotCost(blueprint, robot) ==
    CASE robot = "none" -> <<0, 0, 0>>
      [] robot = "ore" -> <<blueprint.ore_cost, 0, 0>>
      [] robot = "clay" -> <<blueprint.clay_cost, 0, 0>>
      [] robot = "obsidian" -> <<blueprint.obsidian_cost[1], blueprint.obsidian_cost[2], 0>>
      [] robot = "geode" -> <<blueprint.geode_cost[1], 0, blueprint.geode_cost[2]>>

\* The inventory can pay for the robot at the start of the minute.
CanBuild(blueprint, inventory, robot) ==
    /\ inventory.ore >= RobotCost(blueprint, robot)[1]
    /\ inventory.clay >= RobotCost(blueprint, robot)[2]
    /\ inventory.obsidian >= RobotCost(blueprint, robot)[3]

\* The inventory after a minute in which the robot is built: the robots
\* that were there collect (inventory.next()), the cost is paid, the new
\* robot is there; a geode robot is counted in the geodes, not here.
BuildRobot(blueprint, inventory, robot) ==
    LET next == InventoryNext(inventory)
        cost == RobotCost(blueprint, robot)
    IN  [next EXCEPT !.ore = @ - cost[1],
                     !.clay = @ - cost[2],
                     !.obsidian = @ - cost[3],
                     !.ore_robots = @ + (IF robot = "ore" THEN 1 ELSE 0),
                     !.clay_robots = @ + (IF robot = "clay" THEN 1 ELSE 0),
                     !.obsidian_robots = @ + (IF robot = "obsidian" THEN 1 ELSE 0)]

\* The arguments of a call of simulate_with, and a schedule at its start.
SimInit ==
    \E blueprint \in SimBlueprints, ticks \in 1 .. SimMaxTicks :
        sim = [pc |-> "call", blueprint |-> blueprint, ticks |-> ticks, result |-> None,
               remaining |-> ticks, inventory |-> InventoryNew, geodes |-> 0]

\* simulate_with(blueprint, Inventory::new(), ticks) returns.
SimulateWith ==
    /\ sim.pc = "call"
    /\ sim' = [sim EXCEPT !.pc = "returned",
                          !.result = Some(simulate_with(sim.blueprint, InventoryNew,
                                                        sim.ticks))]

\* One minute of a build schedule: at most one robot, paid from what is held
\* at the start of the minute; a geode robot built with r minutes remaining
\* yields r - 1 geodes.
SimSchedule ==
    /\ sim.pc = "returned"
    /\ sim.remaining > 1
    /\ \E robot \in Robots :
         /\ CanBuild(sim.blueprint, sim.inventory, robot)
         /\ sim' = [sim EXCEPT
                      !.remaining = @ - 1,
                      !.inventory = BuildRobot(sim.blueprint, sim.inventory, robot),
                      !.geodes = @ + (IF robot = "geode" THEN sim.remaining - 1 ELSE 0)]

InitSim == SimInit /\ GridIdle /\ LineIdle /\ AsgIdle /\ ParIdle /\ RopeIdle /\ CrIdle /\ VaIdle /\ EvIdle /\ TwIdle /\ SdIdle
SimFrame == UNCHANGED <<gridVars, lineVars, asgVars, parVars, ropeVars, crVars, vaVars, evVars, twVars, sdVars>>
NextSim ==
    \/ SimulateWith /\ SimFrame
    \/ SimSchedule /\ SimFrame

SpecSim == InitSim /\ [][NextSim]_vars

\* C11: simulate_with returns the maximum over all build schedules: no
\* schedule obtains more geodes than the call returned.
C11_SimulateIsOptimal ==
    sim.pc = "returned" => sim.geodes <= sim.result[1]


(***************************************************************************)
(*                     aoc21: Evaluator::evaluate_part2                    *)
(***************************************************************************)
\* type Value = f64.  A finite value is told by the fraction n / d, in
\* lowest terms, that its computation has in exact arithmetic (neg is its
\* sign, which a zero has too), and by `rounded`, which says how the f64
\* stands to that fraction:
\*   0  the f64 is n / d exactly;
\*   1  the f64 is the one nearest to n / d: one operation on exact operands
\*      whose result has no finite binary expansion, rounded once;
\*   2  the f64 was computed from rounded operands: it is near n / d, and
\*      need not be the f64 nearest to it.
\* The values that are not finite are the two infinities and NaN.
RECURSIVE GCD(_, _)
GCD(a, b) == IF b = 0 THEN a ELSE GCD(b, a % b)

Finite(n, d, zero_neg) ==
    LET gcd == GCD(Abs(n), d)
    IN  [k |-> "fin", n |-> n \div gcd, d |-> d \div gcd,
         neg |-> IF n = 0 THEN zero_neg ELSE n < 0, rounded |-> 0]
Infinite(neg) == [k |-> "inf", n |-> 0, d |-> 1, neg |-> neg, rounded |-> 0]
NaN == [k |-> "nan", n |-> 0, d |-> 1, neg |-> FALSE, rounded |-> 0]

\* An f64 holds a fraction exactly when its denominator is a power of two
\* (the numerators here are far below 2^53).
RECURSIVE IsPowerOfTwo(_)
IsPowerOfTwo(d) == d = 1 \/ (d % 2 = 0 /\ IsPowerOfTwo(d \div 2))

\* The rounding of the f64 operation that gives `result` from lhs and rhs.
Rounded(lhs, rhs, result) ==
    [result EXCEPT !.rounded =
        IF lhs.rounded > 0 \/ rhs.rounded > 0 THEN 2
        ELSE IF IsPowerOfTwo(result.d) THEN 0
        ELSE 1]

\* i as Value
Literal(i) == Finite(i, 1, FALSE)

IsZero(x) == x.k = "fin" /\ x.n = 0

\* -x
Negate(x) ==
    CASE x.k = "nan" -> NaN
      [] x.k = "inf" -> Infinite(~x.neg)
      [] OTHER -> [Finite(-x.n, x.d, ~x.neg) EXCEPT !.rounded = x.rounded]

\* lhs + rhs: a sum that is zero is -0 only if both terms are -0.  The sum
\* of a rounded term is itself rounded again: (2.0 / 3.0) + 1.0 is near 5/3.
ValueAdd(lhs, rhs) ==
    CASE lhs.k = "nan" \/ rhs.k = "nan" -> NaN
      [] lhs.k = "inf" /\ rhs.k = "inf" -> IF lhs.neg = rhs.neg THEN lhs ELSE NaN
      [] lhs.k = "inf" -> lhs
      [] rhs.k = "inf" -> rhs
      [] OTHER -> Rounded(lhs, rhs,
                          Finite(lhs.n * rhs.d + rhs.n * lhs.d, lhs.d * rhs.d,
                                 IsZero(lhs) /\ IsZero(rhs) /\ lhs.neg /\ rhs.neg))

\* lhs - rhs
ValueSub(lhs, rhs) == ValueAdd(lhs, Negate(rhs))

\* lhs * rhs
ValueMul(lhs, rhs) ==
    CASE lhs.k = "nan" \/ rhs.k = "nan" -> NaN
      [] lhs.k = "inf" \/ rhs.k = "inf" ->
            IF IsZero(lhs) \/ IsZero(rhs) THEN NaN ELSE Infinite(lhs.neg # rhs.neg)
      [] OTHER -> Rounded(lhs, rhs,
                          Finite(lhs.n * rhs.n, lhs.d * rhs.d, lhs.neg # rhs.neg))

\* lhs / rhs
ValueDiv(lhs, rhs) ==
    CASE lhs.k = "nan" \/ rhs.k = "nan" -> NaN
      [] lhs.k = "inf" -> IF rhs.k = "inf" THEN NaN ELSE Infinite(lhs.neg # rhs.neg)
      [] rhs.k = "inf" -> Finite(0, 1, lhs.neg # rhs.neg)
      [] IsZero(rhs) -> IF IsZero(lhs) THEN NaN ELSE Infinite(lhs.neg # rhs.neg)
      [] OTHER -> Rounded(lhs, rhs,
                          Finite(lhs.n * rhs.d * (IF rhs.n < 0 THEN -1 ELSE 1),
                                 lhs.d * Abs(rhs.n), lhs.neg # rhs.neg))

\* Operation::execute
OperationExecute(op, lhs, rhs) ==
    CASE op = "Add" -> ValueAdd(lhs, rhs)
      [] op = "Sub" -> ValueSub(lhs, rhs)
      [] op = "Mul" -> ValueMul(lhs, rhs)
      [] op = "Div" -> ValueDiv(lhs, rhs)

\* Operation::inverse
inverse(op) ==
    CASE op = "Add" -> "Sub"
      [] op = "Sub" -> "Add"
      [] op = "Mul" -> "Div"
      [] op = "Div" -> "Mul"

\* Job::Op, Job::Literal, Job::Variable
JobOp(lhs, op, rhs) == [job |-> "Op", lhs |-> lhs, op |-> op, rhs |-> rhs, value |-> NaN]
JobLiteral(i) == [job |-> "Literal", lhs |-> "", op |-> "", rhs |-> "", value |-> Literal(i)]
JobVariable == [job |-> "Variable", lhs |-> "", op |-> "", rhs |-> "", value |-> NaN]

\* Job::dependencies
dependencies(job) == IF job.job = "Op" THEN <<job.lhs, job.rhs>> ELSE <<>>

\* Job::other_side_of: None stands for the panic.
other_side_of(job, side) ==
    IF job.job = "Op" /\ job.lhs = side THEN Some(job.rhs)
    ELSE IF job.job = "Op" /\ job.rhs = side THEN Some(job.lhs)
    ELSE None


\* Job::execute reads the operands' values from `values`; a Variable panics.
JobExecute(job, values) ==
    IF job.job = "Op"
    THEN OperationExecute(job.op, values[job.lhs], values[job.rhs])
    ELSE job.value

\* Evaluator::new: every key and every dependency is a node, and the graph
\* has an edge from every key to each of its job's dependencies; a label that
\* is only named as an operand is a node without edges.
GraphOf(jobs) ==
    LET named == UNION { { dependencies(jobs[key])[i] :
                             i \in 1 .. Len(dependencies(jobs[key])) } :
                         key \in DOMAIN jobs }
    IN  [label \in DOMAIN jobs \cup named |->
            IF label \in DOMAIN jobs THEN dependencies(jobs[label]) ELSE <<>>]

\* The labels DfsPostOrder reaches from label.
RECURSIVE Reaches(_, _)
Reaches(graph, label) ==
    {label} \cup
    UNION { Reaches(graph, graph[label][i]) : i \in 1 .. Len(graph[label]) }

\* Evaluator::partially_evaluate: every job reached from label is executed
\* after its operands and its value stored in self.values.
RECURSIVE partially_evaluate(_, _, _, _)
partially_evaluate(jobs, graph, values, label) ==
    LET operands ==
            IF graph[label] = <<>> THEN values
            ELSE partially_evaluate(jobs, graph,
                     partially_evaluate(jobs, graph, values, graph[label][1]),
                     graph[label][2])
    IN  (label :> JobExecute(jobs[label], operands)) @@ operands

\* Does partially_evaluate(label) panic?  It does when it reaches a label
\* that has no job (self.jobs.get(label).unwrap()) or executes a Variable.
ExecutesVariable(jobs, graph, label) ==
    \E reached \in Reaches(graph, label) :
        reached \notin DOMAIN jobs \/ jobs[reached].job = "Variable"

\* The paths of the graph from label to "humn" that have `length` edges.
RECURSIVE PathsFrom(_, _, _)
PathsFrom(graph, label, length) ==
    IF length = 0
    THEN IF label = "humn" THEN {<<label>>} ELSE {}
    ELSE UNION { { <<label>> \o path :
                     path \in PathsFrom(graph, graph[label][i], length - 1) } :
                 i \in 1 .. Len(graph[label]) }

\* petgraph::algo::astar from root to humn with unit edge cost: the shortest
\* paths, of which it returns one.
astar(graph) ==
    LET lengths == { length \in 0 .. Cardinality(DOMAIN graph) :
                        PathsFrom(graph, "root", length) # {} }
    IN  IF lengths = {} THEN {}
        ELSE PathsFrom(graph, "root",
                       CHOOSE length \in lengths : \A other \in lengths : length <= other)

\* The inversion of `value = lhs op rhs` for the operand that is on the path.
invert_lhs(op, value, rhs_value) == OperationExecute(inverse(op), value, rhs_value)

invert_rhs_commuted(op, value, lhs_value) ==
    OperationExecute(inverse(op), value, lhs_value)
invert_rhs(op, value, lhs_value) ==
    IF op \in {"Mul", "Add"}
    THEN OperationExecute(inverse(op), value, lhs_value)
    ELSE OperationExecute(op, lhs_value, value)


\* ---- the inputs: expression trees with humn once below root ----
EvMaxLiteral == 2

\* The operand of an operator that is not on the path to humn: a literal, or
\* the difference `1 - 2` of two literals.
EvOperands == (0 .. EvMaxLiteral) \cup {-1}
OperandJobs(label, operand) ==
    IF operand >= 0
    THEN (label :> JobLiteral(operand))
    ELSE (label :> JobOp(label \o "l", "Sub", label \o "r"))
         @@ (label \o "l" :> JobLiteral(1)) @@ (label \o "r" :> JobLiteral(2))

Operations == {"Add", "Sub", "Mul", "Div"}

\* `label: lhs op rhs`, one of whose operands is the label `inner` and the
\* other the off-path operand `outer`.
PathJob(inner_is_lhs, op, inner, outer) ==
    IF inner_is_lhs THEN JobOp(inner, op, outer) ELSE JobOp(outer, op, inner)

\* The trees: root, then up to two operators between root and humn, each
\* with humn's subtree as its left or its right operand.  humn has a line of
\* its own; in the trees of one operator below root it may also be named as
\* an operand only.  One input has no line for root.
EvTrees ==
    LET Humn == ("humn" :> JobLiteral(1))
        Level(label, inner, outer) ==
            { (label :> PathJob(side, op, inner, outer)) @@ OperandJobs(outer, operand) :
                side \in BOOLEAN, op \in Operations, operand \in EvOperands }
        Root(inner) ==
            { (("root" :> PathJob(side, op, inner, "oa")) @@ OperandJobs("oa", operand)) :
                side \in BOOLEAN, op \in {"Add", "Div"}, operand \in EvOperands }
    IN  { root @@ Humn : root \in Root("humn") }
        \cup { root @@ pa @@ Humn :
                 root \in Root("pa"), pa \in Level("pa", "humn", "ob") }
        \cup { root @@ pa :
                 root \in Root("pa"), pa \in Level("pa", "humn", "ob") }
        \cup { ("oa" :> JobLiteral(1)) @@ Humn }
        \cup { root @@ pa @@ pb @@ Humn :
                 root \in Root("pa"), pa \in Level("pa", "pb", "ob"),
                 pb \in Level("pb", "humn", "oc") }

\* main: the jobs have been parsed and Evaluator::new has built the graph.
EvInit ==
    \E jobs \in EvTrees, mode \in {"Part1", "Part2"} :
        ev = [pc |-> "new", mode |-> mode, jobs |-> jobs, graph |-> GraphOf(jobs),
              values |-> <<>>, path |-> <<>>, i |-> 0, value |-> NaN,
              res |-> None, out |-> None]

\* Mode::Part1 => e.evaluate_part1("root"): root is evaluated with humn as
\* its line gives it; a label without a line makes partially_evaluate panic.
EvaluatePart1 ==
    /\ ev.pc = "new"
    /\ ev.mode = "Part1"
    /\ IF "root" \notin DOMAIN ev.graph \/ ExecutesVariable(ev.jobs, ev.graph, "root")
       THEN ev' = [ev EXCEPT !.pc = "panicked"]
       ELSE LET values == partially_evaluate(ev.jobs, ev.graph, ev.values, "root")
            IN  ev' = [ev EXCEPT !.pc = "returned", !.values = values,
                                 !.res = Some(values["root"])]

\* Mode::Part2 => e.evaluate_part2(), up to the loop: humn becomes the
\* Variable, the path from root is found and the operand of root off the
\* path is evaluated.  self.nodes.get(..).unwrap() panics when no line names
\* humn, or root.
EvaluatePart2 ==
    /\ ev.pc = "new"
    /\ ev.mode = "Part2"
    /\ LET jobs == ("humn" :> JobVariable) @@ ev.jobs
       IN  IF \/ "humn" \notin DOMAIN ev.graph
              \/ "root" \notin DOMAIN ev.graph
              \/ astar(ev.graph) = {}
           THEN ev' = [ev EXCEPT !.pc = "panicked", !.jobs = jobs]
           ELSE \E path_to_root \in astar(ev.graph) :
                  LET other_side == other_side_of(jobs["root"], path_to_root[2])
                  IN  IF other_side = None \/ ExecutesVariable(jobs, ev.graph, other_side[1])
                      THEN ev' = [ev EXCEPT !.pc = "panicked", !.jobs = jobs]
                      ELSE LET values == partially_evaluate(jobs, ev.graph, ev.values,
                                                            other_side[1])
                           IN  ev' = [ev EXCEPT !.pc = "walk", !.jobs = jobs,
                                                !.path = path_to_root, !.i = 2,
                                                !.values = values,
                                                !.value = values[other_side[1]]]


\* One iteration of the loop of evaluate_part2 at a Job::Op: the operand off
\* the path is evaluated and the operation inverted.  (Every item of the path
\* but the last has dependencies and so is an Op, and the last is humn: the
\* loop never meets a Literal and never runs out.)
EvWalkOp ==
    /\ ev.pc = "walk"
    /\ ev.i <= Len(ev.path)
    /\ LET job == ev.jobs[ev.path[ev.i]]
           nodes_in_this_path == { ev.path[k] : k \in 1 .. Len(ev.path) }
           operand == IF job.lhs \in nodes_in_this_path THEN job.rhs ELSE job.lhs
       IN  /\ job.job = "Op"
           /\ IF \/ job.lhs \notin nodes_in_this_path /\ job.rhs \notin nodes_in_this_path
                 \/ ExecutesVariable(ev.jobs, ev.graph, operand)
              THEN ev' = [ev EXCEPT !.pc = "panicked"]
              ELSE LET values == partially_evaluate(ev.jobs, ev.graph, ev.values, operand)
                   IN  ev' = [ev EXCEPT
                                !.values = values,
                                !.i = ev.i + 1,
                                !.value =
                                    IF job.lhs \in nodes_in_this_path
                                    THEN invert_lhs(job.op, ev.value, values[operand])
                                    ELSE invert_rhs(job.op, ev.value, values[operand])]

\* The iteration at Job::Variable: `return value`.
EvWalkVariable ==
    /\ ev.pc = "walk"
    /\ ev.i <= Len(ev.path)
    /\ ev.jobs[ev.path[ev.i]].job = "Variable"
    /\ ev' = [ev EXCEPT !.pc = "returned", !.res = Some(ev.value)]

\* main: println!("{}", res)
EvPrint ==
    /\ ev.pc = "returned"
    /\ ev' = [ev EXCEPT !.pc = "printed", !.out = ev.res]

InitEv ==
    /\ EvInit
    /\ GridIdle /\ LineIdle /\ AsgIdle /\ ParIdle /\ RopeIdle /\ CrIdle /\ VaIdle
    /\ SimIdle /\ TwIdle /\ SdIdle

EvFrame == UNCHANGED <<gridVars, lineVars, asgVars, parVars, ropeVars, crVars,
                       vaVars, simVars, twVars, sdVars>>

NextEv ==
    \/ EvaluatePart1 /\ EvFrame
    \/ EvaluatePart2 /\ EvFrame
    \/ EvWalkOp /\ EvFrame
    \/ EvWalkVariable /\ EvFrame
    \/ EvPrint /\ EvFrame

SpecEv == InitEv /\ [][NextEv]_vars

\* Root's two operands, evaluated with humn = h, are finite and equal, in
\* exact arithmetic: the fractions are compared, whatever their rounding.
Solves(jobs, graph, h) ==
    LET with_h == ("humn" :> [JobLiteral(0) EXCEPT !.value = h]) @@ jobs
        values == partially_evaluate(with_h, graph, <<>>, "root")
        lhs_value == values[with_h["root"].lhs]
        rhs_value == values[with_h["root"].rhs]
    IN  /\ h.k = "fin"
        /\ lhs_value.k = "fin" /\ rhs_value.k = "fin"
        /\ lhs_value.n = rhs_value.n /\ lhs_value.d = rhs_value.d

\* No operator on the path from path[i] down multiplies by zero, divides by
\* zero or divides zero, where `value` is the value path[i] has to take: the
\* off-path operand of every * and / is non-zero, and a quotient with humn in
\* its divisor has to be non-zero.
RECURSIVE PathIsRegular(_, _, _, _, _)
PathIsRegular(jobs, graph, path, i, value) ==
    LET job == jobs[path[i]]
        inner_is_lhs == job.lhs = path[i + 1]
        operand == IF inner_is_lhs THEN job.rhs ELSE job.lhs
        operand_value == partially_evaluate(jobs, graph, <<>>, operand)[operand]
    IN  IF job.job # "Op" THEN TRUE
        ELSE /\ job.op \in {"Mul", "Div"} => ~IsZero(operand_value)
             /\ job.op = "Div" /\ ~inner_is_lhs => ~IsZero(value)
             /\ PathIsRegular(jobs, graph, path, i + 1,
                              IF inner_is_lhs
                              THEN invert_lhs(job.op, value, operand_value)
                              ELSE invert_rhs(job.op, value, operand_value))

EvRegular ==
    LET other_side == other_side_of(ev.jobs["root"], ev.path[2])[1]
    IN  PathIsRegular(ev.jobs, ev.graph, ev.path, 2,
                      partially_evaluate(ev.jobs, ev.graph, <<>>, other_side)[other_side])

\* C12 as stated: for every expression tree with humn once below root, the
\* value evaluate_part2 returns makes root's two operands equal.
C12_EverySolved ==
    ev.pc = "returned" /\ ev.mode = "Part2" => Solves(ev.jobs, ev.graph, ev.res[1])

\* C12, amended: for every expression tree with humn once below root in which
\* no operator on the path multiplies by zero, divides by zero or divides
\* zero, the value evaluate_part2 returns makes root's two operands equal,
\* for every operator on the path and humn's subtree on either side of it.
C12_RegularSolved ==
    ev.pc = "returned" /\ ev.mode = "Part2" /\ EvRegular =>
        Solves(ev.jobs, ev.graph, ev.res[1])

\* A regular tree with `ob / pb` and `oc - humn` on the path, humn's subtree
\* on the right of both, whose solution is not an integer.
C12_Witness ==
    /\ ev.pc = "returned"
    /\ ev.mode = "Part2"
    /\ Len(ev.path) = 4
    /\ ev.jobs["pa"].op = "Div" /\ ev.jobs["pa"].rhs = "pb"
    /\ ev.jobs["pb"].op = "Sub" /\ ev.jobs["pb"].rhs = "humn"
    /\ EvRegular
    /\ ev.res[1].k = "fin" /\ ev.res[1].d > 1
    /\ Solves(ev.jobs, ev.graph, ev.res[1])


(***************************************************************************)
(*                        aoc17: the falling shapes                        *)
(***************************************************************************)
WIDTH == 7
TALLEST_SHAPE == 4

\* Rows are sequences of WIDTH cells, rows[1] is the row on the floor; the
\* code's row and column indices start at 0, so its rows[index][x] is
\* rows[index + 1][x + 1] here.
EmptyCells == [x \in 1 .. WIDTH |-> "Empty"]

\* A row of a shape, from the columns of its Moving cells (0-based).
ShapeRow(columns) == [x \in 1 .. WIDTH |-> IF x - 1 \in columns THEN "Moving" ELSE "Empty"]

\* SHAPES, each from its top row to its bottom row.
SHAPES ==
    << << ShapeRow({2, 3, 4, 5}) >>,
       << ShapeRow({3}), ShapeRow({2, 3, 4}), ShapeRow({3}) >>,
       << ShapeRow({4}), ShapeRow({4}), ShapeRow({2, 3, 4}) >>,
       << ShapeRow({2}), ShapeRow({2}), ShapeRow({2}), ShapeRow({2}) >>,
       << ShapeRow({2, 3}), ShapeRow({2, 3}) >> >>

\* Cell::frozen
frozen(cell) == IF cell = "Moving" THEN "Stuck" ELSE cell

\* Cell::can_move_into
can_move_into_any(cell) == TRUE
can_move_into(cell) == cell \in {"Moving", "Empty"}

\* Tick::next
TickNext(tick) == IF tick = "Lr" THEN "Ud" ELSE "Lr"

\* The result of a function that may panic.
Moved(rows) == [ok |-> TRUE, rows |-> rows]
Panicked(rows) == [ok |-> FALSE, rows |-> rows]

\* move_down: every Moving cell of `current` goes to `lower`, which the
\* assertion wants Empty there.  The two rows are returned as <<lower, current>>.
move_down(current, lower) ==
    IF \E index \in 1 .. WIDTH : current[index] = "Moving" /\ lower[index] # "Empty"
    THEN Panicked(<<lower, current>>)
    ELSE Moved(<< [index \in 1 .. WIDTH |->
                      IF current[index] = "Moving" THEN "Moving" ELSE lower[index]],
                  [index \in 1 .. WIDTH |->
                      IF current[index] = "Moving" THEN "Empty" ELSE current[index]] >>)

\* row.swap(i, j) with 0-based i and j; an index outside the row panics.
swap(row, i, j) ==
    IF i < 0 \/ j < 0 \/ i >= WIDTH \/ j >= WIDTH
    THEN Panicked(row)
    ELSE Moved([row EXCEPT ![i + 1] = row[j + 1], ![j + 1] = row[i + 1]])

\* move_dir to the right: index runs from WIDTH - 1 down to 0.
RECURSIVE move_right(_, _)
move_right(row, index) ==
    IF index < 0 THEN Moved(row)
    ELSE IF row[index + 1] = "Moving"
         THEN LET swapped == swap(row, index, index + 1)
              IN  IF swapped.ok THEN move_right(swapped.rows, index - 1) ELSE swapped
         ELSE move_right(row, index - 1)

\* move_dir to the left: index runs from 0 up to WIDTH - 1.
RECURSIVE move_left(_, _)
move_left(row, index) ==
    IF index >= WIDTH THEN Moved(row)
    ELSE IF row[index + 1] = "Moving"
         THEN LET swapped == swap(row, index, index - 1)
              IN  IF swapped.ok THEN move_left(swapped.rows, index + 1) ELSE swapped
         ELSE move_left(row, index + 1)

\* move_dir
move_dir(motion, row) ==
    IF motion = "Right" THEN move_right(row, WIDTH - 1)
    ELSE IF motion = "Left" THEN move_left(row, 0)
    ELSE Moved(row)

\* Scene::can_move_laterally
can_move_laterally(rows, motion, index) ==
    IF index >= Len(rows) THEN TRUE
    ELSE LET row == rows[index + 1]
         IN  IF motion = "Right"
             THEN \A x \in 0 .. WIDTH - 1 :
                    row[x + 1] = "Moving" =>
                        (x + 1 < WIDTH /\ can_move_into(row[x + 2]))
             ELSE \A x \in 0 .. WIDTH - 1 :
                    row[x + 1] = "Moving" =>
                        (x > 0 /\ can_move_into(row[x]))

\* Scene::can_move_down
can_move_down(rows, index) ==
    IF index >= Len(rows) THEN TRUE
    ELSE IF index = 0 THEN FALSE
    ELSE \A x \in 0 .. WIDTH - 1 :
            rows[index + 1][x + 1] = "Moving" => can_move_into(rows[index][x + 1])

\* Scene::can_move
can_move(rows, motion, bottom_row) ==
    IF motion = "Down"
    THEN \A index \in bottom_row .. bottom_row + TALLEST_SHAPE - 1 :
            can_move_down(rows, index)
    ELSE \A index \in bottom_row .. bottom_row + TALLEST_SHAPE - 1 :
            can_move_laterally(rows, motion, index)

\* Scene::do_move, from row `index` on: rows at or above rows.len() are
\* skipped, and moving row 0 down panics (before.last_mut() is None).
RECURSIVE do_move_from(_, _, _, _)
do_move_from(rows, motion, index, bottom_row) ==
    IF index >= bottom_row + TALLEST_SHAPE THEN Moved(rows)
    ELSE IF index >= Len(rows) THEN do_move_from(rows, motion, index + 1, bottom_row)
    ELSE IF motion = "Down"
         THEN IF index = 0 THEN Panicked(rows)
              ELSE LET down == move_down(rows[index + 1], rows[index])
                   IN  IF down.ok
                       THEN do_move_from([rows EXCEPT ![index] = down.rows[1],
                                                      ![index + 1] = down.rows[2]],
                                         motion, index + 1, bottom_row)
                       ELSE Panicked(rows)
         ELSE LET moved == move_dir(motion, rows[index + 1])
              IN  IF moved.ok
                  THEN do_move_from([rows EXCEPT ![index + 1] = moved.rows],
                                    motion, index + 1, bottom_row)
                  ELSE Panicked(rows)

do_move(rows, motion, bottom_row) == do_move_from(rows, motion, bottom_row, bottom_row)


\* The end (exclusive) of the rows that Scene::freeze freezes.
FreezeEnd_short(rows, bottom_row) == Min(bottom_row + TALLEST_SHAPE - 1, Len(rows) - 1)
FreezeEnd(rows, bottom_row) == Min(bottom_row + TALLEST_SHAPE, Len(rows) - 1)

\* Scene::freeze (rows.len() - 1 underflows when there are no rows)
freeze(rows, bottom_row) ==
    IF Len(rows) = 0 THEN Panicked(rows)
    ELSE Moved([index \in 1 .. Len(rows) |->
                   IF bottom_row <= index - 1 /\ index - 1 < FreezeEnd(rows, bottom_row)
                   THEN [x \in 1 .. WIDTH |-> frozen(rows[index][x])]
                   ELSE rows[index]])

\* Scene::find_highest_occupied_row
find_highest_occupied_row(rows) ==
    LET occupied == { i \in 0 .. Len(rows) - 1 :
                        \E x \in 1 .. WIDTH : rows[i + 1][x] = "Stuck" }
        max == IF occupied = {} THEN 0 ELSE SetMax(occupied)
    IN  max + 1

\* Scene::trim
SceneTrim_nothing(rows) == rows
SceneTrim(rows) == SubSeq(rows, 1, Min(Len(rows), find_highest_occupied_row(rows)))

\* Scene::new
SceneNew(motions) ==
    [floor_offset |-> 0, next_shape |-> 0, shapes_added |-> 0, motions |-> motions,
     next_motion |-> 0, next_tick |-> "Lr", shape_bottom_row |-> None, rows |-> <<>>,
     panic |-> ""]

\* Scene::add_shape
add_shape(scene) ==
    LET shape == SHAPES[scene.next_shape + 1]
        brow == Len(scene.rows) + 3
    IN  [scene EXCEPT
            !.next_shape = (scene.next_shape + 1) % Len(SHAPES),
            !.rows = scene.rows \o <<EmptyCells, EmptyCells, EmptyCells>>
                     \o [k \in 1 .. Len(shape) |-> shape[Len(shape) + 1 - k]],
            !.shapes_added = scene.shapes_added + 1,
            !.shape_bottom_row = Some(brow)]

\* The motion of the next tick of a scene with a shape in motion.
TickMotion(scene) ==
    IF scene.next_tick = "Lr" THEN scene.motions[scene.next_motion + 1] ELSE "Down"

\* Scene::tick
tick(scene) ==
    IF scene.shape_bottom_row = None THEN add_shape(scene)
    ELSE IF scene.next_tick = "Lr" /\ scene.next_motion >= Len(scene.motions)
    THEN [scene EXCEPT !.panic = "motions"]
    ELSE
    LET bottom_row == scene.shape_bottom_row[1]
        motion == TickMotion(scene)
        next_motion == IF scene.next_tick = "Lr"
                       THEN (scene.next_motion + 1) % Len(scene.motions)
                       ELSE scene.next_motion
        ticked == [scene EXCEPT !.next_motion = next_motion,
                                !.next_tick = TickNext(scene.next_tick)]
    IN  IF can_move(scene.rows, motion, bottom_row)
        THEN LET moved == do_move(scene.rows, motion, bottom_row)
             IN  IF ~moved.ok THEN [scene EXCEPT !.panic = "do_move"]
                 ELSE [ticked EXCEPT
                         !.rows = moved.rows,
                         !.shape_bottom_row =
                             IF motion = "Down" THEN Some(bottom_row - 1)
                             ELSE scene.shape_bottom_row]
        ELSE IF motion = "Down"
        THEN LET froze == freeze(scene.rows, bottom_row)
             IN  IF ~froze.ok THEN [scene EXCEPT !.panic = "freeze"]
                 ELSE [ticked EXCEPT !.rows = SceneTrim(froze.rows),
                                     !.shape_bottom_row = None]
        ELSE ticked

\* Scene::find_last_full_row
find_last_full_row(rows) ==
    LET full == { i \in 0 .. Len(rows) - 1 :
                    \A x \in 1 .. WIDTH : rows[i + 1][x] = "Stuck" }
    IN  IF full = {} THEN None ELSE Some(SetMax(full))

\* Scene::check_drop_bottom
check_drop_bottom_rows_only(scene) ==
    LET res == find_last_full_row(scene.rows)
    IN  IF res # None /\ res[1] > 0
        THEN [scene EXCEPT !.rows = SubSeq(scene.rows, res[1] + 1, Len(scene.rows))]
        ELSE scene
check_drop_bottom(scene) ==
    LET res == find_last_full_row(scene.rows)
    IN  IF res # None /\ res[1] > 0
        THEN LET idx == res[1]
             IN  IF scene.shape_bottom_row # None /\ scene.shape_bottom_row[1] < idx
                 THEN [scene EXCEPT !.panic = "check_drop_bottom"]
                 ELSE [scene EXCEPT
                         !.rows = SubSeq(scene.rows, idx + 1, Len(scene.rows)),
                         !.shape_bottom_row =
                             IF scene.shape_bottom_row = None THEN None
                             ELSE Some(scene.shape_bottom_row[1] - idx),
                         !.floor_offset = scene.floor_offset + idx]
        ELSE scene


\* ---- main ----
TwMaxMotions == 8
TwStopAfter == 5

\* if ticks % 1000 == 0 { scene.check_drop_bottom(); }
DropPeriod == 1000

\* The inputs: every line of `<` and `>` of up to TwMaxMotions characters.
RECURSIVE MotionLists(_)
MotionLists(length) ==
    IF length = 0 THEN {<<>>}
    ELSE { <<motion>> \o rest : motion \in {"Left", "Right"},
                                rest \in MotionLists(length - 1) }
TwMotions == UNION { MotionLists(length) : length \in 1 .. TwMaxMotions }

\* Inputs <<motions, stop_after>> whose run reaches the tick DropPeriod with
\* a full row above row 0: the loop ends at the tick that drops one row; it
\* goes on after 69 rows were dropped under a falling shape; and 91 rows are
\* dropped while no shape is in motion.
TwLongRuns ==
    { << <<"Right", "Left", "Left", "Left", "Left", "Right", "Right", "Right">>, 79 >>,
      << <<"Left", "Left", "Right", "Left", "Right", "Right", "Left", "Left">>, 80 >>,
      << <<"Right", "Right", "Left", "Left", "Left", "Left", "Right", "Left">>, 76 >> }

\* scene.find_highest_occupied_row() + scene.floor_offset
Height(scene) == find_highest_occupied_row(scene.rows) + scene.floor_offset

\* main before the loop.  `called` is the same scene in a run that may call
\* check_drop_bottom after any tick, for comparison; `did` names the last
\* thing the loop did.
TwInit ==
    \E input \in (TwMotions \X {TwStopAfter}) \cup TwLongRuns :
        tw = [pc |-> "loop", scene |-> SceneNew(input[1]), called |-> SceneNew(input[1]),
              stop_after |-> input[2], ticks |-> 0, did |-> "new", out |-> None]

\* One iteration of main's loop up to `ticks += 1`; check_drop_bottom comes
\* next when ticks % 1000 == 0.  In the run of `called` the tick may be
\* followed by check_drop_bottom whatever the number of ticks.
TwTicked(did) ==
    LET scene == tick(tw.scene)
        called == tick(tw.called)
    IN  \E and_then \in IF tw.called.panic # "" THEN {tw.called}
                        ELSE IF called.panic # "" THEN {called}
                        ELSE {called, check_drop_bottom(called)} :
          tw' = [tw EXCEPT !.scene = scene,
                           !.called = and_then,
                           !.ticks = tw.ticks + 1,
                           !.did = did,
                           !.pc = IF scene.panic # "" THEN "panicked"
                                  ELSE IF (tw.ticks + 1) % DropPeriod = 0 THEN "drop"
                                  ELSE "loop"]

TwLooping == tw.pc = "loop" /\ tw.scene.shapes_added <= tw.stop_after

\* scene.tick() with no shape in motion: add_shape
TwTickSpawn ==
    /\ TwLooping
    /\ tw.scene.shape_bottom_row = None
    /\ TwTicked("spawn")

\* scene.tick() with a shape that can_move: do_move
TwTickMove ==
    /\ TwLooping
    /\ tw.scene.shape_bottom_row # None
    /\ can_move(tw.scene.rows, TickMotion(tw.scene), tw.scene.shape_bottom_row[1])
    /\ TwTicked("move")

\* scene.tick() with a shape that cannot move sideways
TwTickBlocked ==
    /\ TwLooping
    /\ tw.scene.shape_bottom_row # None
    /\ TickMotion(tw.scene) # "Down"
    /\ ~can_move(tw.scene.rows, TickMotion(tw.scene), tw.scene.shape_bottom_row[1])
    /\ TwTicked("blocked")

\* scene.tick() with a shape that cannot move down: freeze and trim
TwTickFreeze ==
    /\ TwLooping
    /\ tw.scene.shape_bottom_row # None
    /\ TickMotion(tw.scene) = "Down"
    /\ ~can_move(tw.scene.rows, TickMotion(tw.scene), tw.scene.shape_bottom_row[1])
    /\ TwTicked("freeze")

\* The end of an iteration whose tick made ticks % 1000 == 0:
\* scene.check_drop_bottom(), before the loop tests shapes_added again.
TwCheckDropBottom ==
    /\ tw.pc = "drop"
    /\ LET scene == check_drop_bottom(tw.scene)
       IN  tw' = [tw EXCEPT !.scene = scene,
                            !.did = IF scene = tw.scene THEN tw.did ELSE "drop",
                            !.pc = IF scene.panic # "" THEN "panicked" ELSE "loop"]

\* main after the loop: the height is printed.
TwPrint ==
    /\ tw.pc = "loop"
    /\ tw.scene.shapes_added > tw.stop_after
    /\ tw' = [tw EXCEPT !.pc = "done", !.out = Some(Height(tw.scene))]

InitTw ==
    /\ TwInit
    /\ GridIdle /\ LineIdle /\ AsgIdle /\ ParIdle /\ RopeIdle /\ CrIdle /\ VaIdle
    /\ SimIdle /\ EvIdle /\ SdIdle

TwFrame == UNCHANGED <<gridVars, lineVars, asgVars, parVars, ropeVars, crVars,
                       vaVars, simVars, evVars, sdVars>>

NextTw ==
    \/ TwTickSpawn /\ TwFrame
    \/ TwTickMove /\ TwFrame
    \/ TwTickBlocked /\ TwFrame
    \/ TwTickFreeze /\ TwFrame
    \/ TwCheckDropBottom /\ TwFrame
    \/ TwPrint /\ TwFrame

SpecTw == InitTw /\ [][NextTw]_vars


\* The positions <<index, x>> of the cells of a kind.
CellsOf(rows, kind) ==
    { position \in (0 .. Len(rows) - 1) \X (0 .. WIDTH - 1) :
        rows[position[1] + 1][position[2] + 1] = kind }

\* The index of the highest row with a Stuck cell, -1 if there is none.
HighestStuck(rows) ==
    LET stuck == { position[1] : position \in CellsOf(rows, "Stuck") }
    IN  IF stuck = {} THEN -1 ELSE SetMax(stuck)

\* C13: whenever tick finds can_move(motion, bottom_row) true, the do_move
\* it calls does not panic, and afterwards the scene has as many Moving cells
\* as before and exactly the same Stuck cells.
C13_DoMoveKeepsCells ==
    [][ ( /\ TwLooping
          /\ tw.scene.shape_bottom_row # None
          /\ can_move(tw.scene.rows, TickMotion(tw.scene), tw.scene.shape_bottom_row[1])
          /\ tw'.ticks = tw.ticks + 1 )
        => ( /\ tw'.scene.panic = ""
             /\ Cardinality(CellsOf(tw'.scene.rows, "Moving"))
                    = Cardinality(CellsOf(tw.scene.rows, "Moving"))
             /\ CellsOf(tw'.scene.rows, "Stuck") = CellsOf(tw.scene.rows, "Stuck") ) ]_vars

\* A shape has just moved down into a row that also holds a Stuck cell.
C13_Witness ==
    /\ tw.did = "move"
    /\ tw.scene.next_tick = "Lr"
    /\ tw.scene.panic = ""
    /\ \E moving \in CellsOf(tw.scene.rows, "Moving") :
         \E stuck \in CellsOf(tw.scene.rows, "Stuck") :
            moving[1] = stuck[1] /\ moving[1] = tw.scene.shape_bottom_row[1]

\* C14: in every reachable state in which shape_bottom_row is None, no cell
\* of the scene is Moving.
C14_NoMovingAtRest ==
    tw.scene.shape_bottom_row = None => CellsOf(tw.scene.rows, "Moving") = {}

\* The shape that is four rows tall has just been frozen: its four rows are
\* Stuck up to the top row of the scene.
C14_Witness ==
    /\ tw.did = "freeze"
    /\ tw.scene.next_shape = 4
    /\ tw.scene.shape_bottom_row = None
    /\ CellsOf(tw.scene.rows, "Moving") = {}
    /\ \E x \in 1 .. WIDTH :
         \A k \in 0 .. TALLEST_SHAPE - 1 :
            /\ Len(tw.scene.rows) > k
            /\ tw.scene.rows[Len(tw.scene.rows) - k][x] = "Stuck"

\* C15: every shape that tick spawns has its bottom row exactly three empty
\* rows above the highest row with a Stuck cell (three rows above the floor
\* if there is none), and no Stuck cell at or above its bottom row.
C15_SpawnThreeAbove ==
    tw.did = "spawn" =>
        LET rows == tw.scene.rows
            bottom_row == tw.scene.shape_bottom_row[1]
        IN  /\ bottom_row = HighestStuck(rows) + 4
            /\ \A index \in bottom_row - 3 .. bottom_row - 1 : rows[index + 1] = EmptyCells
            /\ \A moving \in CellsOf(rows, "Moving") : moving[1] >= bottom_row
            /\ \E moving \in CellsOf(rows, "Moving") : moving[1] = bottom_row
            /\ \A stuck \in CellsOf(rows, "Stuck") : stuck[1] < bottom_row

\* A shape has been spawned above a tower with an uneven top.
C15_Witness ==
    /\ tw.did = "spawn"
    /\ tw.scene.shapes_added >= 3
    /\ tw.scene.shape_bottom_row[1] = HighestStuck(tw.scene.rows) + 4
    /\ Cardinality({ stuck \in CellsOf(tw.scene.rows, "Stuck") :
                        stuck[1] = HighestStuck(tw.scene.rows) }) = 1

\* Two runs of the same input after the same ticks, of which one has dropped
\* more rows than the other, are the same to the simulation: the same height
\* and number of shapes, the same rows above the dropped ones and the shape
\* in motion at the same height above the floor.
Aligned(one, other) ==
    LET low == IF one.floor_offset <= other.floor_offset THEN one ELSE other
        high == IF one.floor_offset <= other.floor_offset THEN other ELSE one
        dropped == high.floor_offset - low.floor_offset
    IN  /\ Height(one) = Height(other)
        /\ one.shapes_added = other.shapes_added
        /\ dropped <= Len(low.rows)
        /\ high.rows = SubSeq(low.rows, dropped + 1, Len(low.rows))
        /\ (one.shape_bottom_row = None) = (other.shape_bottom_row = None)
        /\ one.shape_bottom_row # None =>
              one.shape_bottom_row[1] + one.floor_offset
                  = other.shape_bottom_row[1] + other.floor_offset

\* C16: check_drop_bottom, called in any reachable state, leaves
\* find_highest_occupied_row() + floor_offset unchanged and the shape in
\* motion at the same place: it does so in every state main's run reaches,
\* and main's run (which calls it at every 1000th tick only) and the run
\* that may call it after any tick have the same height after every shape,
\* the same rows above the dropped ones and the shape at the same height
\* above the floor, and print the same height.
C16_DropIsInvisible ==
    /\ tw.scene.panic = ""
    /\ tw.called.panic = ""
    /\ check_drop_bottom(tw.scene).panic = ""
    /\ Aligned(check_drop_bottom(tw.scene), tw.scene)
    /\ Aligned(tw.scene, tw.called)
    /\ tw.pc = "done" => tw.out = Some(Height(tw.called))

\* main has just dropped rows under a shape in motion, at its 1000th tick,
\* in a run of which the copy has dropped none.
C16_Witness ==
    /\ tw.did = "drop"
    /\ tw.ticks = DropPeriod
    /\ tw.scene.floor_offset > 0
    /\ tw.called.floor_offset = 0
    /\ tw.scene.shape_bottom_row # None
    /\ Height(tw.scene) = Height(tw.called)


(***************************************************************************)
(*                         aoc14: the falling sand                         *)
(***************************************************************************)
SOURCE_X == 500
PADDING == 100
FLOOR_END == 1000

\* The source of the sand, Point { x: 500, y: 0 }.
Source == Point(SOURCE_X, 0)

\* DenseGrid::new for the scene.  The Vec of cells is kept as the function
\* from the coordinates whose cell is not Cell::Empty to Rock or Sand:
\* index_for maps the coordinates of the box one to one to the Vec's indices.
SceneGrid(top_left, bottom_right) ==
    [min_x |-> Min(top_left.x, bottom_right.x), max_x |-> Max(top_left.x, bottom_right.x),
     min_y |-> Min(top_left.y, bottom_right.y), max_y |-> Max(top_left.y, bottom_right.y),
     cells |-> <<>>]

\* Cell::is_empty of grid[coordinate]
is_empty(grid, coordinate) == coordinate \notin DOMAIN grid.cells

\* start.line_to(end) collected, for start and end that share a coordinate;
\* None stands for the panic of LineToIter::new when start = end.
line_to(start, end) ==
    LET direction == line_direction(start, end)
    IN  IF direction = None THEN None
        ELSE Some([k \in 1 .. manhattan_distance_to(start, end) + 1 |->
                      Point(start.x + (k - 1) * direction[1].x,
                            start.y + (k - 1) * direction[1].y)])

\* The coordinates that add_path sets: grid.set ignores those outside the grid.
PathCells(grid, line) ==
    { line[k] : k \in { j \in 1 .. Len(line) : contains(grid, line[j]) } }

\* Scene::add_path; None stands for the panic of line_to.
add_path(grid, start, end, of) ==
    LET line == line_to(start, end)
    IN  IF line = None THEN None
        ELSE LET inside == PathCells(grid, line[1])
             IN  Some([grid EXCEPT !.cells =
                         [coordinate \in DOMAIN grid.cells \cup inside |->
                             IF coordinate \in inside THEN of
                             ELSE grid.cells[coordinate]]])

\* The segments of the paths: path.into_iter().tuple_windows() for every path.
SegmentsOf(paths) ==
    UNION { { <<paths[i][j], paths[i][j + 1]>> : j \in 1 .. Len(paths[i]) - 1 } :
            i \in 1 .. Len(paths) }


\* scene.add_path(lhs, rhs, Cell::Rock) for every segment: all of them set
\* Rock, so the cells set are those of all the lines; None if a line_to panics.
AddPaths(grid, segments) ==
    IF \E segment \in segments : line_to(segment[1], segment[2]) = None THEN None
    ELSE LET inside == UNION { PathCells(grid, line_to(segment[1], segment[2])[1]) :
                                 segment \in segments }
         IN  Some([grid EXCEPT !.cells =
                     [coordinate \in DOMAIN grid.cells \cup inside |->
                         IF coordinate \in inside THEN "Rock"
                         ELSE grid.cells[coordinate]]])

\* Scene::new
SandScene(grid) ==
    [grid |-> grid, current_sand |-> None, sand_created |-> 0, panic |-> ""]

\* parse_scene for the parsed paths (every path has a point); None stands for
\* a panic.
parse_scene(paths, mode) ==
    LET xs == UNION { { paths[i][j].x : j \in 1 .. Len(paths[i]) } : i \in 1 .. Len(paths) }
        ys == UNION { { paths[i][j].y : j \in 1 .. Len(paths[i]) } : i \in 1 .. Len(paths) }
        min_x == CHOOSE x \in xs : \A other \in xs : x <= other
        max_x == Max(SetMax(xs), SOURCE_X)
        min_y == Min(CHOOSE y \in ys : \A other \in ys : y <= other, 0)
        max_y == SetMax(ys)
        top_left == IF mode = "Part2" THEN Point(min_x - PADDING, min_y)
                    ELSE Point(min_x, min_y)
        bottom_right == IF mode = "Part2" THEN Point(max_x + PADDING, max_y + 2)
                        ELSE Point(max_x, max_y)
        rocks == AddPaths(SceneGrid(top_left, bottom_right), SegmentsOf(paths))
    IN  IF rocks = None THEN None
        ELSE IF mode = "Part2"
        THEN LET floor == add_path(rocks[1], Point(0, max_y + 2),
                                   Point(FLOOR_END, max_y + 2), "Rock")
             IN  IF floor = None THEN None ELSE Some(SandScene(floor[1]))
        ELSE Some(SandScene(rocks[1]))

\* step when a cell below the unit is outside the grid: the unit is not
\* counted.
fall_off_counted(scene) == scene
fall_off(scene) == [scene EXCEPT !.sand_created = scene.sand_created - 1]

\* Scene::step: the scene after the call and the value returned.
step(scene) ==
    IF scene.current_sand # None
    THEN LET coordinate == scene.current_sand[1]
             taken == [scene EXCEPT !.current_sand = None]
             down == PointAdd(coordinate, Point(0, 1))
             down_left == PointAdd(coordinate, Point(-1, 1))
             down_right == PointAdd(coordinate, Point(1, 1))
         IN  IF \/ ~contains(scene.grid, down)
                \/ ~contains(scene.grid, down_left)
                \/ ~contains(scene.grid, down_right)
             THEN [scene |-> fall_off(taken), ret |-> FALSE]
             ELSE IF is_empty(scene.grid, down)
             THEN [scene |-> [taken EXCEPT !.current_sand = Some(down)], ret |-> TRUE]
             ELSE IF is_empty(scene.grid, down_left)
             THEN [scene |-> [taken EXCEPT !.current_sand = Some(down_left)], ret |-> TRUE]
             ELSE IF is_empty(scene.grid, down_right)
             THEN [scene |-> [taken EXCEPT !.current_sand = Some(down_right)], ret |-> TRUE]
             ELSE IF ~contains(scene.grid, coordinate)
             THEN [scene |-> [taken EXCEPT !.panic = "index"], ret |-> FALSE]
             ELSE [scene |-> [taken EXCEPT
                                !.grid.cells = (coordinate :> "Sand") @@ scene.grid.cells],
                   ret |-> TRUE]
    ELSE IF ~contains(scene.grid, Source)
    THEN [scene |-> [scene EXCEPT !.panic = "index"], ret |-> FALSE]
    ELSE IF is_empty(scene.grid, Source)
    THEN [scene |-> [scene EXCEPT !.sand_created = scene.sand_created + 1,
                                  !.current_sand = Some(Source)],
          ret |-> TRUE]
    ELSE [scene |-> scene, ret |-> FALSE]


\* ---- the inputs ----
SdMaxDepth == 2

\* One rock segment next to the source column, at a depth of up to SdMaxDepth.
SdLedges ==
    { << <<Point(a, y), Point(b, y)>> >> :
        a \in SOURCE_X - 1 .. SOURCE_X + 1, b \in SOURCE_X - 1 .. SOURCE_X + 1,
        y \in 1 .. SdMaxDepth }

\* A cup under the source.
SdCup ==
    << <<Point(SOURCE_X - 2, 1), Point(SOURCE_X - 2, 3),
         Point(SOURCE_X + 2, 3), Point(SOURCE_X + 2, 1)>> >>

\* Rock to the right of the source only.
SdFar == << <<Point(SOURCE_X + PADDING + 1, 1), Point(SOURCE_X + PADDING + 2, 1)>> >>

\* A staircase from under the source down to the left as far as x = 0:
\* 501,1 -> 500,1 -> 500,2 -> 499,2 -> 499,3 -> ... -> 0,501
SdStaircase ==
    << [i \in 1 .. 2 * (SOURCE_X + 1) |->
          Point(SOURCE_X + 1 - ((i - 1) \div 2) - ((i - 1) % 2), ((i - 1) \div 2) + 1)] >>

SdLayouts == SdLedges \cup {SdCup, SdFar, SdStaircase}

\* main: the input has been read and its paths parsed.
SdInit ==
    \E paths \in SdLayouts, mode \in {"Part1", "Part2"} :
        sd = [pc |-> "parse", mode |-> mode, paths |-> paths,
              scene |-> SandScene(SceneGrid(Point(0, 0), Point(0, 0))), out |-> None]

\* parse_scene
SdParseScene ==
    /\ sd.pc = "parse"
    /\ LET scene == parse_scene(sd.paths, sd.mode)
       IN  IF scene = None
           THEN sd' = [sd EXCEPT !.pc = "panicked"]
           ELSE sd' = [sd EXCEPT !.pc = "simulate", !.scene = scene[1]]

\* One call of step by simulate: `while self.step() {}`.
SdStepped ==
    LET stepped == step(sd.scene)
    IN  sd' = [sd EXCEPT !.scene = stepped.scene,
                         !.pc = IF stepped.scene.panic # "" THEN "panicked"
                                ELSE IF stepped.ret THEN "simulate" ELSE "stopped"]

\* step: the unit in motion moves on.
SdStepFall ==
    /\ sd.pc = "simulate"
    /\ sd.scene.current_sand # None
    /\ step(sd.scene).ret /\ step(sd.scene).scene.current_sand # None
    /\ SdStepped

\* step: the unit in motion comes to rest.
SdStepRest ==
    /\ sd.pc = "simulate"
    /\ sd.scene.current_sand # None
    /\ step(sd.scene).ret /\ step(sd.scene).scene.current_sand = None
    /\ SdStepped

\* step: a cell below the unit in motion is outside the grid.
SdStepOverflow ==
    /\ sd.pc = "simulate"
    /\ sd.scene.current_sand # None
    /\ ~step(sd.scene).ret
    /\ SdStepped

\* step: a new unit at the source.
SdStepSpawn ==
    /\ sd.pc = "simulate"
    /\ sd.scene.current_sand = None
    /\ step(sd.scene).ret
    /\ SdStepped

\* step: the source is not empty (or not in the grid, and grid[..] panics).
SdStepBlocked ==
    /\ sd.pc = "simulate"
    /\ sd.scene.current_sand = None
    /\ ~step(sd.scene).ret
    /\ SdStepped

\* main: println!("CREATED: {}", scene.sand_created)
SdPrint ==
    /\ sd.pc = "stopped"
    /\ sd' = [sd EXCEPT !.pc = "printed", !.out = Some(sd.scene.sand_created)]

InitSd ==
    /\ SdInit
    /\ GridIdle /\ LineIdle /\ AsgIdle /\ ParIdle /\ RopeIdle /\ CrIdle /\ VaIdle
    /\ SimIdle /\ EvIdle /\ TwIdle

SdFrame == UNCHANGED <<gridVars, lineVars, asgVars, parVars, ropeVars, crVars,
                       vaVars, simVars, evVars, twVars>>

NextSd ==
    \/ SdParseScene /\ SdFrame
    \/ SdStepFall /\ SdFrame
    \/ SdStepRest /\ SdFrame
    \/ SdStepOverflow /\ SdFrame
    \/ SdStepSpawn /\ SdFrame
    \/ SdStepBlocked /\ SdFrame
    \/ SdPrint /\ SdFrame

SpecSd == InitSd /\ [][NextSd]_vars

\* The coordinates of the grid whose cell is Sand.
SandCells == { coordinate \in DOMAIN sd.scene.grid.cells :
                 sd.scene.grid.cells[coordinate] = "Sand" }

\* C17: in every state reachable through Scene::step, sand_created is the
\* number of cells holding Sand, plus one if a unit is in motion; the count
\* printed when simulate has stopped is the number of units at rest.
C17_SandCreatedCounts ==
    /\ sd.pc \in {"simulate", "stopped", "printed"} =>
          sd.scene.sand_created = Cardinality(SandCells)
                                  + (IF sd.scene.current_sand # None THEN 1 ELSE 0)
    /\ sd.pc = "printed" =>
          /\ sd.out = Some(Cardinality(SandCells))
          /\ sd.scene.current_sand = None

\* A run of Part1 in which a unit came to rest has stopped on a unit that
\* overflowed the grid, and the count has been printed.
C17_Witness ==
    /\ sd.pc = "printed"
    /\ sd.mode = "Part1"
    /\ Cardinality(SandCells) >= 1
    /\ Source \notin SandCells
    /\ sd.out = Some(Cardinality(SandCells))

\* Is the floor row of the grid Rock from side to side?
FloorIsWhole ==
    \A x \in sd.scene.grid.min_x .. sd.scene.grid.max_x :
        /\ Point(x, sd.scene.grid.max_y) \in DOMAIN sd.scene.grid.cells
        /\ sd.scene.grid.cells[Point(x, sd.scene.grid.max_y)] = "Rock"

\* C18: in Part2, for every rock layout, simulate stops only because the
\* source cell (500, 0) holds resting sand: step does not panic, no unit
\* reaches the side of the grid and is counted as fallen off, and the floor
\* row at max_y + 2 is Rock across the whole width of the grid.
C18_StopsAtBlockedSource ==
    sd.mode = "Part2" =>
        /\ sd.scene.panic = ""
        /\ sd.pc \in {"simulate", "stopped", "printed"} => FloorIsWhole
        /\ sd.pc \in {"stopped", "printed"} => Source \in SandCells

=============================================================================
